---- MODULE Spec2Model ----
(***************************************************************************)
(* A model of mdview's rendering engine (src/render.rs): the table         *)
(* column-width budgeting algorithm, the style-preserving word-wrap        *)
(* engine, the table renderer and the document state machine; and of the   *)
(* viewer's main loop (src/main.rs) with its watcher thread (src/watch.rs).*)
(***************************************************************************)
EXTENDS Integers, Sequences, FiniteSets, TLC

VARIABLES
    \* ---- budget_columns (render.rs 501-555), run step by step
    natural,            \* natural: &[usize]
    terminal_width,     \* terminal_width: usize
    widths,             \* widths: Vec<usize> (the value returned at "done")
    locked,             \* locked: Vec<bool>
    budget,             \* budget: usize
    bi,                 \* index of the min_col loop (1-based)
    iterations,         \* how many times the body of `loop` has run
    bpc,                \* position in budget_columns
    \* ---- wrap_cell_spans (render.rs 575-647), one call
    w_spans,            \* spans: &[Span]
    w_max_width,        \* max_width: usize
    w_max_lines,        \* max_lines: usize
    w_base_style,       \* base_style: Style
    w_result,           \* the returned Vec<Vec<Span>>
    wpc,                \* "call" before the call, "done" after it
    \* ---- build_wrapped_row (render.rs 771-853) as render_table calls it
    r_row,              \* the header, or the body row of a 0-based index
    r_cells,            \* cells: &[Vec<Span>]
    r_widths,           \* widths: &[usize]
    r_alignments,       \* alignments: &[Alignment]
    r_wrapped,          \* wrapped: the lines of each column's cell
    r_lines,            \* the returned Vec<Line>
    rowpc,              \* "call", "wrapped" (cells wrapped), "done"
    \* ---- struct Renderer (render.rs 22-40), one render pass
    lines, spans, style_stack, list_stack, blockquote_depth, in_code_block,
    code_lang, code_buf, in_table, table_alignments, table_header, table_rows,
    current_cell, in_table_header, link_url, item_paragraph_count, width,
    events,             \* the event stream the parser hands to process()
    epos,               \* index of the next event of `events`
    rpc,                \* "run" inside process()'s loop, "done" after it
    \* ---- render_markdown (render.rs 7-15) called twice on the same input
    pass,               \* 0: a single call; 1, 2: the first, the second call
    first_pass,         \* the Renderer after each step of the first call
    \* ---- main (main.rs 49-164), the watcher thread (watch.rs) and the world
    m_content,          \* content: String, as the blocks of the file
    m_render_width,     \* render_width: u16
    app_text,           \* app.text: the displayed Document
    app_scroll,         \* app.scroll
    app_viewport_height, \* app.viewport_height
    file,               \* what read_to_string(&path) would return now
    term,               \* the terminal's size now
    channel,            \* the notifications queued in the mpsc channel
    sent,               \* the notifications the watcher has sent so far
    resizes,            \* the Event::Resize events the terminal has queued
    vpc,                \* main's position in the loop body
    took,               \* the notifications this iteration has received
    reads,              \* the read_to_string calls of this iteration
    rerendered,         \* the last step of main called render_markdown
    unseen              \* a notification was sent after the last re-read

budgetVars == <<natural, terminal_width, widths, locked, budget, bi, iterations, bpc>>

wrapVars == <<w_spans, w_max_width, w_max_lines, w_base_style, w_result, wpc>>

rendererVars == <<lines, spans, style_stack, list_stack, blockquote_depth,
                  in_code_block, code_lang, code_buf, in_table, table_alignments,
                  table_header, table_rows, current_cell, in_table_header,
                  link_url, item_paragraph_count, width>>

renderVars == <<rendererVars, events, epos, rpc, pass, first_pass>>

rowVars == <<r_row, r_cells, r_widths, r_alignments, r_wrapped, r_lines, rowpc>>

viewVars == <<m_content, m_render_width, app_text, app_scroll, app_viewport_height,
              file, term, channel, sent, resizes, vpc, took, reads, rerendered, unseen>>

vars == <<budgetVars, wrapVars, rowVars, viewVars, renderVars>>

\* ------------------------------------------------------------------ bounds
MaxCols == 3
MaxNatural == 7
MaxBudgetWidth == 29
MaxChars == 4
MaxWrapWidth == 3
MaxWrapLines == 2
MaxItems == 3
MaxTableCols == 2
MaxTableRows == 1
MaxTableWidth == 12

\* ------------------------------------------------------------- arithmetic
\* usize::saturating_sub
SatSub(a, b) == IF a >= b THEN a - b ELSE 0

Min(a, b) == IF a <= b THEN a ELSE b

Max(a, b) == IF a >= b THEN a ELSE b

RECURSIVE SumSeq(_)
\* iter().sum()
SumSeq(s) == IF s = <<>> THEN 0 ELSE Head(s) + SumSeq(Tail(s))

\* ------------------------------------------------------------ data model
\* ratatui Style: the fields this program sets (fg, bg, add_modifier).
DefaultStyle == [fg |-> "None", bg |-> "None", mods |-> {}]

\* Style::patch: what `other` sets wins, modifiers are added.
Patch(base, other) ==
    [fg |-> IF other.fg # "None" THEN other.fg ELSE base.fg,
     bg |-> IF other.bg # "None" THEN other.bg ELSE base.bg,
     mods |-> base.mods \cup other.mods]

\* Style::default().fg(color)
Fg(color) == [DefaultStyle EXCEPT !.fg = color]

\* Style::default().bg(Color::Indexed(239)), the style of inline code
CodeStyle == [DefaultStyle EXCEPT !.bg = "Indexed239"]

\* Style::default().add_modifier(Modifier::BOLD), the header's base style
BoldStyle == [DefaultStyle EXCEPT !.mods = {"BOLD"}]

\* Span::styled(content, style); content is a sequence of characters
Span(content, style) == [content |-> content, style |-> style]

\* UnicodeWidthChar::width: "W" stands for a wide (CJK, emoji) character
CharWidth(ch) == IF ch = "W" THEN 2 ELSE 1

RECURSIVE StrWidth(_)
StrWidth(str) == IF str = <<>> THEN 0 ELSE CharWidth(Head(str)) + StrWidth(Tail(str))

\* Span::width
SpanWidth(span) == StrWidth(span.content)

RECURSIVE cell_text_width(_)
\* spans.iter().map(|s| s.width()).sum()
cell_text_width(sps) ==
    IF sps = <<>> THEN 0 ELSE SpanWidth(Head(sps)) + cell_text_width(Tail(sps))

\* " ".repeat(n)
Repeat(ch, n) == [i \in 1..n |-> ch]

\* ---------------------------------------------- parts that are not running
BudgetIdle ==
    /\ natural = <<>> /\ terminal_width = 0 /\ widths = <<>> /\ locked = <<>>
    /\ budget = 0 /\ bi = 1 /\ iterations = 0 /\ bpc = "idle"

WrapIdle ==
    /\ w_spans = <<>> /\ w_max_width = 0 /\ w_max_lines = 0
    /\ w_base_style = DefaultStyle /\ w_result = <<>> /\ wpc = "idle"

RowIdle ==
    /\ r_row = [header |-> TRUE, idx |-> 0] /\ r_cells = <<>> /\ r_widths = <<>> /\ r_alignments = <<>>
    /\ r_wrapped = <<>> /\ r_lines = <<>> /\ rowpc = "idle"

ViewIdle ==
    /\ m_content = <<>> /\ m_render_width = 0 /\ app_text = <<>> /\ app_scroll = 0
    /\ app_viewport_height = 0 /\ file = [ok |-> FALSE, data |-> <<>>]
    /\ term = [w |-> 0, h |-> 0] /\ channel = 0 /\ sent = 0 /\ resizes = <<>>
    /\ vpc = "idle" /\ took = 0 /\ reads = 0 /\ rerendered = FALSE /\ unseen = FALSE

\* Renderer::new(width)
RendererNew(w) ==
    /\ lines = <<>>
    /\ spans = <<>>
    /\ style_stack = <<DefaultStyle>>
    /\ list_stack = <<>>
    /\ blockquote_depth = 0
    /\ in_code_block = FALSE
    /\ code_lang = "None"
    /\ code_buf = <<>>
    /\ in_table = FALSE
    /\ table_alignments = <<>>
    /\ table_header = <<>>
    /\ table_rows = <<>>
    /\ current_cell = <<>>
    /\ in_table_header = FALSE
    /\ link_url = <<>>
    /\ item_paragraph_count = 0
    /\ width = w

\* render_markdown is called once; nothing is recorded.
SinglePass == pass = 0 /\ first_pass = <<>>

RenderIdle == RendererNew(0) /\ events = <<>> /\ epos = 1 /\ rpc = "idle" /\ SinglePass

\* ------------------------------------------------------- budget_columns
\* let chrome = num_cols * 3 + 1;
Chrome(num_cols) == num_cols * 3 + 1

AvailableMut(tw, chrome) == tw
\* let available = terminal_width.saturating_sub(chrome);
Available(tw, chrome) == SatSub(tw, chrome)

FitsMut(total_natural, available) == total_natural < available
\* if total_natural <= available { return natural.to_vec(); }
Fits(total_natural, available) == total_natural <= available

\* let min_col: usize = 5;
min_col == 5

\* (0..num_cols).filter(|i| !locked[*i]).collect(), in index order
RECURSIVE UnlockedFrom(_, _)
UnlockedFrom(lk, i) ==
    IF i > Len(lk) THEN <<>>
    ELSE IF lk[i] THEN UnlockedFrom(lk, i + 1)
    ELSE <<i>> \o UnlockedFrom(lk, i + 1)

Unlocked(lk) == UnlockedFrom(lk, 1)

FairMut(b, n) == b
\* let fair = budget / unlocked.len();
Fair(b, n) == b \div n

RECURSIVE FairLoopMut(_, _, _, _)
FairLoopMut(st, unl, nat, fair) ==
    IF unl = <<>> THEN st
    ELSE LET i == Head(unl) IN
         IF nat[i] < fair
         THEN FairLoopMut([widths |-> [st.widths EXCEPT ![i] = nat[i]],
                           locked |-> [st.locked EXCEPT ![i] = TRUE],
                           budget |-> SatSub(st.budget, nat[i]),
                           newly_locked |-> TRUE],
                          Tail(unl), nat, fair)
         ELSE FairLoopMut(st, Tail(unl), nat, fair)

\* The `for &i in &unlocked` loop of one fair-share iteration: st is
\* [widths, locked, budget, newly_locked]; fair is fixed for the iteration.
RECURSIVE FairLoop(_, _, _, _)
FairLoop(st, unl, nat, fair) ==
    IF unl = <<>> THEN st
    ELSE LET i == Head(unl) IN
         IF nat[i] <= fair
         THEN FairLoop([widths |-> [st.widths EXCEPT ![i] = nat[i]],
                        locked |-> [st.locked EXCEPT ![i] = TRUE],
                        budget |-> SatSub(st.budget, nat[i]),
                        newly_locked |-> TRUE],
                       Tail(unl), nat, fair)
         ELSE FairLoop(st, Tail(unl), nat, fair)

DistributeMut(w, remaining, share, leftover) ==
    [i \in 1..Len(w) |->
        IF \E k \in 1..Len(remaining) : remaining[k] = i THEN share ELSE w[i]]

\* The final even distribution: share to every remaining column, one extra
\* to the first `leftover` of them.
RECURSIVE Distribute(_, _, _, _)
Distribute(w, remaining, share, leftover) ==
    IF remaining = <<>> THEN w
    ELSE LET extra == IF leftover > 0 THEN 1 ELSE 0 IN
         Distribute([w EXCEPT ![Head(remaining)] = share + extra],
                    Tail(remaining), share,
                    IF leftover > 0 THEN leftover - 1 ELSE leftover)

\* The locals of budget_columns that change while it runs.
BudgetState(w, lk, b) == [widths |-> w, locked |-> lk, budget |-> b]

\* lines 502-514: the early return ("done"), or the set-up of compression
BudgetEnter(nat, tw) ==
    LET num_cols == Len(nat)
        available == Available(tw, Chrome(num_cols))
    IN IF Fits(SumSeq(nat), available)
       THEN [st |-> BudgetState(nat, <<>>, 0), pc |-> "done"]
       ELSE [st |-> BudgetState([i \in 1..num_cols |-> 0],
                                [i \in 1..num_cols |-> FALSE],
                                available),
             pc |-> IF num_cols = 0 THEN "loop" ELSE "minlock"]

LockMinAtMut(nat, st, i) ==
    IF nat[i] <= min_col
    THEN LET w == Min(nat[i], st.budget) IN
         BudgetState([st.widths EXCEPT ![i] = w],
                     [st.locked EXCEPT ![i] = TRUE],
                     SatSub(st.budget, w))
    ELSE st

\* lines 517-521: one turn of `for i in 0..num_cols` (i is 1-based here)
LockMinAt(nat, st, i) ==
    IF nat[i] <= min_col
    THEN LET w == Min(min_col, st.budget) IN
         BudgetState([st.widths EXCEPT ![i] = w],
                     [st.locked EXCEPT ![i] = TRUE],
                     SatSub(st.budget, w))
    ELSE st

LoopIterMut(nat, st) == [st |-> st, how |-> "locked"]

\* lines 542-551 and the end of the loop body: r is the state the
\* `for &i in &unlocked` loop has left
LoopEnd(r) ==
    IF r.newly_locked
    THEN [st |-> BudgetState(r.widths, r.locked, r.budget), how |-> "locked"]
    ELSE LET remaining == Unlocked(r.locked)
             share == r.budget \div Max(Len(remaining), 1)
             leftover == r.budget % Max(Len(remaining), 1)
         IN [st |-> BudgetState(Distribute(r.widths, remaining, share, leftover),
                                r.locked, r.budget),
             how |-> "distributed"]

\* lines 525-551: one run of the body of `loop`; how tells how it ended:
\* "break" (nothing unlocked), "locked" (go round again), "distributed".
\* The set of one element binds the outcome of the inner loop once.
LoopIter(nat, st) ==
    LET unl == Unlocked(st.locked) IN
    IF unl = <<>> THEN [st |-> st, how |-> "break"]
    ELSE CHOOSE out \in
            {LoopEnd(r) :
                r \in {FairLoop([widths |-> st.widths, locked |-> st.locked,
                                 budget |-> st.budget, newly_locked |-> FALSE],
                                unl, nat, Fair(st.budget, Len(unl)))}} : TRUE

RECURSIVE LockMinFrom(_, _, _)
LockMinFrom(nat, st, i) ==
    IF i > Len(nat) THEN st ELSE LockMinFrom(nat, LockMinAt(nat, st, i), i + 1)

RECURSIVE RunLoop(_, _)
RunLoop(nat, st) ==
    LET r == LoopIter(nat, st) IN
    IF r.how = "locked" THEN RunLoop(nat, r.st) ELSE r.st

\* budget_columns as the table renderer calls it: the whole function
budget_columns(nat, tw) ==
    LET e == BudgetEnter(nat, tw) IN
    IF e.pc = "done" THEN e.st.widths
    ELSE RunLoop(nat, LockMinFrom(nat, e.st, 1)).widths

NaturalLists == UNION {[1..n -> 0..MaxNatural] : n \in 0..MaxCols}

InitBudget ==
    /\ natural \in NaturalLists
    /\ terminal_width \in 0..MaxBudgetWidth
    /\ widths = <<>>
    /\ locked = <<>>
    /\ budget = 0
    /\ bi = 1
    /\ iterations = 0
    /\ bpc = "start"
    /\ WrapIdle
    /\ RowIdle
    /\ ViewIdle
    /\ RenderIdle

BudgetStart ==
    /\ bpc = "start"
    /\ LET e == BudgetEnter(natural, terminal_width) IN
       /\ widths' = e.st.widths
       /\ locked' = e.st.locked
       /\ budget' = e.st.budget
       /\ bpc' = e.pc
    /\ UNCHANGED <<natural, terminal_width, bi, iterations>>
    /\ UNCHANGED <<wrapVars, rowVars, viewVars, renderVars>>

LockMinStep ==
    /\ bpc = "minlock"
    /\ bi <= Len(natural)
    /\ LET st == LockMinAt(natural, BudgetState(widths, locked, budget), bi) IN
       /\ widths' = st.widths
       /\ locked' = st.locked
       /\ budget' = st.budget
    /\ bi' = bi + 1
    /\ bpc' = IF bi + 1 > Len(natural) THEN "loop" ELSE "minlock"
    /\ UNCHANGED <<natural, terminal_width, iterations>>
    /\ UNCHANGED <<wrapVars, rowVars, viewVars, renderVars>>

\* One run of the loop body, ending the way `how` says.
LoopStep(how) ==
    /\ bpc = "loop"
    /\ \E r \in {LoopIter(natural, BudgetState(widths, locked, budget))} :
       /\ r.how = how
       /\ widths' = r.st.widths
       /\ locked' = r.st.locked
       /\ budget' = r.st.budget
    /\ bpc' = IF how = "locked" THEN "loop" ELSE "done"
    /\ iterations' = iterations + 1
    /\ UNCHANGED <<natural, terminal_width, bi>>
    /\ UNCHANGED <<wrapVars, rowVars, viewVars, renderVars>>

\* lines 526-528: `if unlocked.is_empty() { break; }`
LoopBreak == LoopStep("break")

\* lines 530-540: an iteration that locks at least one column
FairShareLock == LoopStep("locked")

\* lines 542-551: an iteration that locks nothing distributes what is left
FinalDistribute == LoopStep("distributed")

NextBudget == BudgetStart \/ LockMinStep \/ LoopBreak \/ FairShareLock \/ FinalDistribute

SpecBudget == InitBudget /\ [][NextBudget]_vars

\* Natural widths at the minimum column width, just above it and at the
\* largest width.
LiveNaturalLists ==
    UNION {[1..n -> {min_col, min_col + 1, MaxNatural}] : n \in 0..MaxCols}

InitBudgetLive == InitBudget /\ natural \in LiveNaturalLists

\* budget_columns is a synchronous call: a step that can be taken is taken.
SpecBudgetLive == InitBudgetLive /\ [][NextBudget]_vars /\ WF_vars(NextBudget)

\* ------------------------------------------------- claims: budget_columns
\* The chrome of the table being budgeted, written out: 3 * num_columns + 1.
ChromeOfInput == 3 * Len(natural) + 1

\* C1 (as stated): for every list of natural widths and every terminal
\* width, also one smaller than the chrome, the returned widths satisfy
\* sum(allocated) + chrome <= terminal_width.
C1_SumPlusChromeFitsAnyWidth ==
    bpc = "done" => SumSeq(widths) + ChromeOfInput <= terminal_width

\* C1 (amended): when the terminal is at least as wide as the chrome, the
\* returned widths satisfy sum(allocated) + chrome <= terminal_width; when it
\* is narrower, every returned width is 0.
C1_SumPlusChromeFits ==
    bpc = "done" =>
        /\ terminal_width >= ChromeOfInput =>
               SumSeq(widths) + ChromeOfInput <= terminal_width
        /\ terminal_width < ChromeOfInput =>
               \A i \in 1..Len(widths) : widths[i] = 0

\* A compressed three-column table that fills the terminal exactly.
C1_Witness ==
    /\ bpc = "done"
    /\ Len(natural) = 3
    /\ iterations >= 2
    /\ SumSeq(natural) + ChromeOfInput > terminal_width
    /\ SumSeq(widths) + ChromeOfInput = terminal_width

\* C2: budget_columns never hands out more than the available budget,
\* available = terminal_width - chrome saturating at 0: on the early return,
\* after each min_col lock, after each fair-share iteration and after the
\* final distribution, sum(allocated) <= available.
C2_SumWithinAvailable ==
    bpc # "start" => SumSeq(widths) <= SatSub(terminal_width, ChromeOfInput)

\* Two columns were locked by the fair-share test in one iteration and the
\* loop is about to run again.
C2_Witness ==
    /\ bpc = "loop"
    /\ iterations = 1
    /\ \E i, j \in 1..Len(natural) :
           /\ i < j
           /\ natural[i] > min_col /\ natural[j] > min_col
           /\ locked[i] /\ locked[j]
    /\ \E k \in 1..Len(natural) : ~locked[k]

\* C3: if sum(natural) + chrome <= terminal_width, the natural widths are
\* returned unchanged, column for column.
C3_NaturalFitsUnchanged ==
    (bpc = "done" /\ SumSeq(natural) + ChromeOfInput <= terminal_width)
        => widths = natural

\* Two narrow columns that fit the terminal exactly.
C3_Witness ==
    /\ bpc = "done"
    /\ Len(natural) = 2
    /\ natural[1] = 3 /\ natural[2] = 3
    /\ SumSeq(natural) + ChromeOfInput = terminal_width
    /\ widths = natural

\* Compression is needed: the natural widths do not fit the available space.
CompressionNeeded == SumSeq(natural) > SatSub(terminal_width, ChromeOfInput)

\* C26: when compression is needed, the columns are processed left to right
\* and each column with natural width <= 5 gets exactly min(5, budget
\* remaining at its turn), the remaining budget going down by that amount, so
\* it gets 5 whenever at least 5 remain, even if its natural width is smaller;
\* the width it got is the one returned.
C26_SmallColumnsGetMinCol ==
    [][/\ LockMinStep =>
            IF natural[bi] <= 5
            THEN /\ widths' = [widths EXCEPT ![bi] = IF budget >= 5 THEN 5 ELSE budget]
                 /\ budget' = budget - widths'[bi]
                 /\ locked' = [locked EXCEPT ![bi] = TRUE]
            ELSE UNCHANGED <<widths, budget, locked>>
       /\ \A i \in 1..Len(locked) :
             (bpc # "start" /\ locked[i]) => (locked'[i] /\ widths'[i] = widths[i])]_vars

\* A column of natural width 2 got 5, and a later small column got the 3
\* columns of budget that remained.
C26_Witness ==
    /\ bpc = "done"
    /\ CompressionNeeded
    /\ Len(natural) = 3
    /\ natural[1] = 2 /\ widths[1] = 5
    /\ natural[2] > 5
    /\ natural[3] <= 5 /\ widths[3] = 3

\* C29: whenever compression is needed and every natural width is >= 1, the
\* whole budget is used: sum(allocated) = available, available being
\* terminal_width - chrome saturating at 0; a single column wider than the
\* available space is allocated exactly that.
C29_WholeBudgetUsed ==
    (bpc = "done" /\ CompressionNeeded /\ \A i \in 1..Len(natural) : natural[i] >= 1) =>
        /\ SumSeq(widths) = SatSub(terminal_width, ChromeOfInput)
        /\ Len(natural) = 1 => widths[1] = SatSub(terminal_width, ChromeOfInput)

\* Three wide columns shared a budget that does not divide by three: the
\* first column got the extra one.
C29_Witness ==
    /\ bpc = "done"
    /\ CompressionNeeded
    /\ Len(natural) = 3
    /\ \A i \in 1..3 : natural[i] > min_col /\ ~locked[i]
    /\ widths[1] = widths[3] + 1
    /\ SumSeq(widths) = terminal_width - ChromeOfInput

\* C30: for every input each column's allocation satisfies
\* allocated[i] <= max(natural[i], 5); a column locked by the fair-share
\* test gets exactly its natural width and a column served by the final even
\* distribution never gets more than its natural width.
C30_AllocationAtMostNaturalOrMin ==
    bpc = "done" =>
        \A i \in 1..Len(natural) :
           /\ widths[i] <= (IF natural[i] >= 5 THEN natural[i] ELSE 5)
           /\ natural[i] > 5 => widths[i] <= natural[i]
           /\ (natural[i] > 5 /\ CompressionNeeded /\ locked[i]) => widths[i] = natural[i]

\* One column was locked by the fair-share test at its natural width; the
\* final distribution gave the next column exactly its natural width, one
\* more than the share, and the last column the share.
C30_Witness ==
    /\ bpc = "done"
    /\ CompressionNeeded
    /\ iterations = 2
    /\ \E i, j, k \in 1..Len(natural) :
          /\ natural[i] > min_col /\ locked[i] /\ widths[i] = natural[i]
          /\ ~locked[j] /\ widths[j] = natural[j]
          /\ ~locked[k] /\ widths[k] = widths[j] - 1

\* How many columns are locked.
NumLocked == Cardinality({i \in 1..Len(locked) : locked[i]})

\* C27: the fair-share loop always terminates: every run of its body either
\* locks at least one column that was unlocked or ends the loop, so for N
\* columns the body runs at most N + 1 times, and every column ends with a
\* width assigned.
C27_LoopTerminates ==
    /\ <>(bpc = "done")
    /\ [](iterations <= Len(natural) + 1)
    /\ [](bpc = "done" => Len(widths) = Len(natural))
    /\ [][bpc = "loop" =>
             \/ bpc' = "done"
             \/ bpc' = "loop" /\ NumLocked' > NumLocked]_vars

\* The loop body ran twice on two columns: the first run locked one column,
\* the second distributed what was left.
C27_Witness ==
    /\ bpc = "done"
    /\ Len(natural) = 2
    /\ iterations = 2
    /\ NumLocked = 1
    /\ Len(widths) = 2

\* ------------------------------------------------------- wrap_cell_spans
\* The glyph appended to a truncated line, one column wide.
Ellipsis == "ELLIPSIS"

\* Span::styled("...", Style::default().fg(Color::DarkGray))
EllipsisSpan == Span(<<Ellipsis>>, Fg("DarkGray"))

\* flatten_to_styled_chars, one span: (ch, w, style) for each character
SpanChars(content, style) ==
    [i \in 1..Len(content) |->
        [ch |-> content[i], w |-> CharWidth(content[i]), style |-> style]]

RECURSIVE flatten_to_styled_chars(_, _)
flatten_to_styled_chars(sps, base_style) ==
    IF sps = <<>> THEN <<>>
    ELSE SpanChars(Head(sps).content, Patch(base_style, Head(sps).style))
         \o flatten_to_styled_chars(Tail(sps), base_style)

RECURSIVE FlatWidth(_)
\* flat.iter().map(|(_, w, _)| w).sum()
FlatWidth(flat) == IF flat = <<>> THEN 0 ELSE Head(flat).w + FlatWidth(Tail(flat))

\* StyledWord { chars, width, trailing_space }
StyledWord(chars, w, trailing) ==
    [chars |-> chars, width |-> w, trailing_space |-> trailing]

\* The `for` loop of split_into_words; st is [words, current, width].
RECURSIVE SplitLoop(_, _)
SplitLoop(st, chars) ==
    IF chars = <<>> THEN st
    ELSE LET c == Head(chars) IN
         IF c.ch = " "
         THEN IF st.current # <<>>
              THEN SplitLoop([words |-> Append(st.words,
                                               StyledWord(st.current, st.width, TRUE)),
                              current |-> <<>>,
                              width |-> 0],
                             Tail(chars))
              ELSE SplitLoop(st, Tail(chars))
         ELSE SplitLoop([st EXCEPT !.current = Append(@, c), !.width = @ + c.w],
                        Tail(chars))

split_into_words(chars) ==
    LET st == SplitLoop([words |-> <<>>, current |-> <<>>, width |-> 0], chars)
    IN IF st.current # <<>>
       THEN Append(st.words, StyledWord(st.current, st.width, FALSE))
       ELSE st.words

\* The `for` loop of coalesce_chars; st is [spans, buf, cur_style].
RECURSIVE CoalesceLoop(_, _)
CoalesceLoop(st, chars) ==
    IF chars = <<>> THEN st
    ELSE LET c == Head(chars)
             st1 == IF st.buf # <<>> /\ c.style # st.cur_style
                    THEN [st EXCEPT !.spans = Append(@, Span(st.buf, st.cur_style)),
                                    !.buf = <<>>]
                    ELSE st
         IN CoalesceLoop([st1 EXCEPT !.cur_style = c.style, !.buf = Append(@, c.ch)],
                         Tail(chars))

coalesce_chars(chars) ==
    LET st == CoalesceLoop([spans |-> <<>>, buf |-> <<>>, cur_style |-> DefaultStyle],
                           chars)
    IN IF st.buf # <<>> THEN Append(st.spans, Span(st.buf, st.cur_style)) ELSE st.spans

\* The inner loop of truncate_line_spans: the characters of one span that
\* still fit into `remaining` columns.
RECURSIVE TruncChars(_, _, _)
TruncChars(content, used, remaining) ==
    IF content = <<>> THEN <<>>
    ELSE LET cw == CharWidth(Head(content)) IN
         IF used + cw > remaining THEN <<>>
         ELSE <<Head(content)>> \o TruncChars(Tail(content), used + cw, remaining)

RECURSIVE truncate_line_spans(_, _)
truncate_line_spans(sps, remaining) ==
    IF sps = <<>> \/ remaining = 0 THEN <<>>
    ELSE LET w == SpanWidth(Head(sps)) IN
         IF w <= remaining
         THEN <<Head(sps)>> \o truncate_line_spans(Tail(sps), remaining - w)
         ELSE <<Span(TruncChars(Head(sps).content, 0, remaining), Head(sps).style)>>

finish_truncated(ls, cur_chars, max_width) ==
    Append(ls, Append(truncate_line_spans(coalesce_chars(cur_chars), SatSub(max_width, 1)),
                      EllipsisSpan))

LineLimitReachedMut(nlines, max_lines) == nlines >= max_lines
\* if lines.len() + 1 >= max_lines { return finish_truncated(..) }
LineLimitReached(nlines, max_lines) == nlines + 1 >= max_lines

\* The state of the packing loop: lines, cur_chars, cur_width, and whether
\* the function has returned (then `lines` is the value returned).
WrapState(ls, cur_chars, cur_width, returned) ==
    [lines |-> ls, cur_chars |-> cur_chars, cur_width |-> cur_width,
     returned |-> returned]

\* lines 599-604 and 610-615: close the line in progress, or truncate
BreakLine(st, max_width, max_lines) ==
    IF LineLimitReached(Len(st.lines), max_lines)
    THEN WrapState(finish_truncated(st.lines, st.cur_chars, max_width), <<>>, 0, TRUE)
    ELSE WrapState(Append(st.lines, coalesce_chars(st.cur_chars)), <<>>, 0, FALSE)

\* lines 608-619: a word wider than max_width, split character by character
RECURSIVE HardSplit(_, _, _, _)
HardSplit(st, chars, max_width, max_lines) ==
    IF st.returned \/ chars = <<>> THEN st
    ELSE LET c == Head(chars)
             st1 == IF st.cur_width + c.w > max_width
                    THEN BreakLine(st, max_width, max_lines)
                    ELSE st
         IN IF st1.returned THEN st1
            ELSE HardSplit([st1 EXCEPT
                               !.cur_chars = Append(@, [ch |-> c.ch, style |-> c.style]),
                               !.cur_width = @ + c.w],
                           Tail(chars), max_width, max_lines)

\* lines 620-623 and 632-635: the space after a word, if the line has room
TrailingSpace(st, word, max_width) ==
    IF word.trailing_space /\ st.cur_width < max_width
    THEN [st EXCEPT
             !.cur_chars = Append(@, [ch |-> " ",
                                      style |-> word.chars[Len(word.chars)].style]),
             !.cur_width = @ + 1]
    ELSE st

\* lines 597-636: `for word in &words`
RECURSIVE WrapWords(_, _, _, _)
WrapWords(st, words, max_width, max_lines) ==
    IF st.returned \/ words = <<>> THEN st
    ELSE LET word == Head(words)
             st1 == IF st.cur_width > 0 /\ st.cur_width + word.width > max_width
                    THEN BreakLine(st, max_width, max_lines)
                    ELSE st
         IN IF st1.returned THEN st1
            ELSE IF word.width > max_width
            THEN LET st2 == HardSplit(st1, word.chars, max_width, max_lines) IN
                 IF st2.returned THEN st2
                 ELSE WrapWords(TrailingSpace(st2, word, max_width),
                                Tail(words), max_width, max_lines)
            ELSE WrapWords(
                     TrailingSpace(
                         [st1 EXCEPT
                             !.cur_chars = @ \o [i \in 1..Len(word.chars) |->
                                                    [ch |-> word.chars[i].ch,
                                                     style |-> word.chars[i].style]],
                             !.cur_width = @ + word.width],
                         word, max_width),
                     Tail(words), max_width, max_lines)

AtLeastOneLineMut(ls) == ls
\* lines 642-644: if lines.is_empty() { lines.push(Vec::new()) }
AtLeastOneLine(ls) == IF ls = <<>> THEN << <<>> >> ELSE ls

wrap_cell_spans(sps, max_width, max_lines, base_style) ==
    LET flat == flatten_to_styled_chars(sps, base_style)
        total_width == FlatWidth(flat)
    IN IF total_width <= max_width
       THEN << [i \in 1..Len(sps) |->
                   Span(sps[i].content, Patch(base_style, sps[i].style))] >>
       ELSE LET st == WrapWords(WrapState(<<>>, <<>>, 0, FALSE),
                                split_into_words(flat), max_width, max_lines)
            IN IF st.returned THEN st.lines
               ELSE AtLeastOneLine(IF st.cur_chars # <<>>
                                   THEN Append(st.lines, coalesce_chars(st.cur_chars))
                                   ELSE st.lines)

\* The characters and span styles a cell is drawn from: a narrow and a wide
\* character and the space; the default style and the inline-code style.
WrapChars == {"a", "W", " "}

WrapStyles == {DefaultStyle, CodeStyle}

StyledCharSeqs ==
    UNION {[1..n -> [ch : WrapChars, style : WrapStyles]] : n \in 0..MaxChars}

\* A cell's spans: the maximal runs of equally styled characters.
RECURSIVE GroupSpans(_)
GroupSpans(cs) ==
    IF cs = <<>> THEN <<>>
    ELSE LET rest == GroupSpans(Tail(cs)) IN
         IF rest # <<>> /\ rest[1].style = Head(cs).style
         THEN <<Span(<<Head(cs).ch>> \o rest[1].content, rest[1].style)>> \o Tail(rest)
         ELSE <<Span(<<Head(cs).ch>>, Head(cs).style)>> \o rest

InitWrap ==
    /\ \E cs \in StyledCharSeqs : w_spans = GroupSpans(cs)
    /\ w_max_width \in 0..MaxWrapWidth
    /\ w_max_lines \in 0..MaxWrapLines
    /\ w_base_style \in {DefaultStyle, BoldStyle}
    /\ w_result = <<>>
    /\ wpc = "call"
    /\ BudgetIdle
    /\ RowIdle
    /\ ViewIdle
    /\ RenderIdle

\* One call of wrap_cell_spans.
WrapCall ==
    /\ wpc = "call"
    /\ w_result' = wrap_cell_spans(w_spans, w_max_width, w_max_lines, w_base_style)
    /\ wpc' = "done"
    /\ UNCHANGED <<w_spans, w_max_width, w_max_lines, w_base_style>>
    /\ UNCHANGED <<budgetVars, rowVars, viewVars, renderVars>>

NextWrap == WrapCall

SpecWrap == InitWrap /\ [][NextWrap]_vars

\* ------------------------------------------------ claims: wrap_cell_spans
\* The characters of one output line, span after span, each with its style.
RECURSIVE LineStyledChars(_)
LineStyledChars(line) ==
    IF line = <<>> THEN <<>>
    ELSE [i \in 1..Len(Head(line).content) |->
             [ch |-> Head(line).content[i], style |-> Head(line).style]]
         \o LineStyledChars(Tail(line))

LineText(line) ==
    LET cs == LineStyledChars(line) IN [i \in 1..Len(cs) |-> cs[i].ch]

\* The input of the call as the wrap engine sees it.
WrapInputFlat == flatten_to_styled_chars(w_spans, w_base_style)

WrapInputText == [i \in 1..Len(WrapInputFlat) |-> WrapInputFlat[i].ch]

\* The last span of the last line is the ellipsis span.
EndsWithEllipsis(ls) ==
    /\ ls # <<>>
    /\ ls[Len(ls)] # <<>>
    /\ ls[Len(ls)][Len(ls[Len(ls)])] = EllipsisSpan

\* Some span of some line holds the ellipsis glyph.
HasEllipsis(ls) ==
    \E i \in 1..Len(ls) : \E j \in 1..Len(ls[i]) :
        \E k \in 1..Len(ls[i][j].content) : ls[i][j].content[k] = Ellipsis

\* C4: every line returned by wrap_cell_spans has display width <=
\* max_width, for any spans, any max_width >= 0 and any max_lines.
C4_LinesWithinMaxWidth ==
    wpc = "done" =>
        \A i \in 1..Len(w_result) : cell_text_width(w_result[i]) <= w_max_width

\* The number of lines the content needs: what the packing produces when no
\* line limit stops it (no packing makes more lines than characters + 1).
NeededLines ==
    Len(wrap_cell_spans(w_spans, w_max_width, Len(WrapInputFlat) + 2, w_base_style))

\* C5: with max_lines >= 1, content that needs more than max_lines lines
\* comes back as exactly max_lines lines whose last span is the ellipsis
\* glyph; content that needs max_lines lines or fewer gets no ellipsis.
C5_TruncationEllipsis ==
    (wpc = "done" /\ w_max_lines >= 1) =>
        IF NeededLines > w_max_lines
        THEN Len(w_result) = w_max_lines /\ EndsWithEllipsis(w_result)
        ELSE Len(w_result) = NeededLines /\ ~HasEllipsis(w_result)

\* A call that was cut at its second line.
C5_Witness ==
    /\ wpc = "done"
    /\ w_max_lines = 2
    /\ NeededLines > 2
    /\ Len(w_result) = 2
    /\ EndsWithEllipsis(w_result)
    /\ cell_text_width(w_result[2]) > 1

AllSpaces(str) == \A i \in 1..Len(str) : str[i] = " "

IsPrefix(pre, str) == Len(pre) <= Len(str) /\ SubSeq(str, 1, Len(pre)) = pre

\* The input text is the lines' text in order, where only spaces may be
\* missing, and only where a line ends; when the result was truncated, the
\* last line (without its ellipsis) is followed by the dropped characters.
RECURSIVE KeepsContent(_, _, _)
KeepsContent(inp, ls, truncated) ==
    IF ls = <<>> THEN AllSpaces(inp)
    ELSE LET text == LineText(Head(ls)) IN
         IF truncated /\ Len(ls) = 1
         THEN IsPrefix(SubSeq(text, 1, Len(text) - 1), inp)
         ELSE /\ IsPrefix(text, inp)
              /\ \E k \in 0..(Len(inp) - Len(text)) :
                     /\ AllSpaces(SubSeq(inp, Len(text) + 1, Len(text) + k))
                     /\ KeepsContent(SubSeq(inp, Len(text) + k + 1, Len(inp)),
                                     Tail(ls), truncated)

\* C6: the characters of the output lines, concatenated, are the input
\* characters, except for spaces removed where a line break was inserted
\* and for the characters truncation dropped (plus the ellipsis); spaces in
\* the middle of a line, runs of spaces and leading spaces are kept.
C6_ContentPreserved ==
    wpc = "done" =>
        KeepsContent(WrapInputText, w_result, EndsWithEllipsis(w_result))

\* The output characters in order, without the appended ellipsis.
RECURSIVE ConcatLines(_)
ConcatLines(ls) ==
    IF ls = <<>> THEN <<>> ELSE LineStyledChars(Head(ls)) \o ConcatLines(Tail(ls))

WrapOutputChars ==
    LET cs == ConcatLines(w_result) IN
    IF EndsWithEllipsis(w_result) THEN SubSeq(cs, 1, Len(cs) - 1) ELSE cs

\* Each output character, matched to the first input character after its
\* predecessor's origin that is the same character, has that input
\* character's style (base_style patched with the style of its span).
RECURSIVE StylesKept(_, _)
StylesKept(out, inp) ==
    IF out = <<>> THEN TRUE
    ELSE IF inp = <<>> THEN FALSE
    ELSE IF Head(inp).ch = Head(out).ch
         THEN Head(inp).style = Head(out).style /\ StylesKept(Tail(out), Tail(inp))
         ELSE StylesKept(out, Tail(inp))

\* C7: every character of the output, spaces included and the appended
\* ellipsis excepted, carries base_style patched with the style of the input
\* span it came from.
C7_StylePreserved ==
    wpc = "done" => StylesKept(WrapOutputChars, WrapInputFlat)

\* C17: wrap_cell_spans never returns zero lines: an empty span list gives
\* exactly one line of zero spans, and every other input, content made only
\* of spaces wider than max_width included, gives at least one line.
C17_NeverZeroLines ==
    wpc = "done" =>
        /\ Len(w_result) >= 1
        /\ w_spans = <<>> => w_result = << <<>> >>

\* Spaces only, wider than max_width: no word, one line of zero spans.
C17_Witness ==
    /\ wpc = "done"
    /\ w_spans # <<>>
    /\ AllSpaces(WrapInputText)
    /\ FlatWidth(WrapInputFlat) > w_max_width
    /\ w_result = << <<>> >>

\* --------------------------------------------------------- table renderer
\* Style::default().fg(Color::DarkGray): borders, prefixes, bullets
DarkGray == Fg("DarkGray")

\* The characters build_border pushes after `left`.
RECURSIVE BorderTail(_, _, _, _)
BorderTail(ws, i, mid, right) ==
    IF i > Len(ws) THEN <<>>
    ELSE Repeat("HBAR", ws[i] + 2)
         \o <<IF i < Len(ws) THEN mid ELSE right>>
         \o BorderTail(ws, i + 1, mid, right)

\* build_border: one line holding the whole border string
build_border(ws, left, mid, right, style) ==
    <<Span(<<left>> \o BorderTail(ws, 1, mid, right), style)>>

RECURSIVE EmptyRowTail(_, _, _)
EmptyRowTail(ws, border_style, pad_style) ==
    IF ws = <<>> THEN <<>>
    ELSE <<Span(Repeat(" ", Head(ws) + 2), pad_style), Span(<<"VBAR">>, border_style)>>
         \o EmptyRowTail(Tail(ws), border_style, pad_style)

build_empty_rowMut(ws, border_style, bg) == <<Span(<<"VBAR">>, border_style)>>

\* build_empty_row; bg_style is "None" or a background colour (Option<Style>)
build_empty_row(ws, border_style, bg) ==
    <<Span(<<"VBAR">>, border_style)>>
    \o EmptyRowTail(ws, border_style,
                    IF bg = "None" THEN DefaultStyle ELSE [DefaultStyle EXCEPT !.bg = bg])

RECURSIVE MaxOf(_)
\* iter().max() of a non-empty sequence
MaxOf(ns) == IF Len(ns) = 1 THEN ns[1] ELSE Max(Head(ns), MaxOf(Tail(ns)))

\* lines 825-835: the spans of a cell line with the row background filled in
ZebraSpans(cell_spans, row_bg) ==
    [k \in 1..Len(cell_spans) |->
        IF row_bg # "None" /\ cell_spans[k].style.bg = "None"
        THEN Span(cell_spans[k].content, [cell_spans[k].style EXCEPT !.bg = row_bg])
        ELSE cell_spans[k]]

PadsMut(align, vrow, padding) ==
    CASE align = "Center" -> <<padding \div 2, padding - padding \div 2>>
      [] align = "Right" -> <<padding, 0>>
      [] OTHER -> <<0, padding>>

\* lines 808-816: (pad_left, pad_right); vrow is 0-based as in the source
Pads(align, vrow, padding) ==
    IF vrow = 0
    THEN CASE align = "Center" -> <<padding \div 2, padding - padding \div 2>>
           [] align = "Right" -> <<padding, 0>>
           [] OTHER -> <<0, padding>>
    ELSE <<0, padding>>

\* lines 802-843: what one column adds to the visual row vrow
CellColumn(wrapped_i, max_w, align, vrow, border_style, row_bg) ==
    LET has_line == vrow + 1 <= Len(wrapped_i)
        content_len == IF has_line THEN cell_text_width(wrapped_i[vrow + 1]) ELSE 0
        padding == SatSub(max_w, content_len)
        pads == Pads(align, vrow, padding)
        pad_style == IF row_bg = "None" THEN DefaultStyle
                     ELSE [DefaultStyle EXCEPT !.bg = row_bg]
    IN <<Span(<<" ">>, pad_style)>>
       \o (IF pads[1] > 0 THEN <<Span(Repeat(" ", pads[1]), pad_style)>> ELSE <<>>)
       \o (IF has_line THEN ZebraSpans(wrapped_i[vrow + 1], row_bg) ELSE <<>>)
       \o (IF pads[2] > 0 THEN <<Span(Repeat(" ", pads[2]), pad_style)>> ELSE <<>>)
       \o <<Span(<<" ">>, pad_style), Span(<<"VBAR">>, border_style)>>

RowColumnsMut(wrapped, ws, alignments, i, vrow, border_style, row_bg) ==
    IF i > Len(ws) THEN <<>>
    ELSE CellColumn(wrapped[i], ws[i],
                    IF i <= Len(alignments) THEN alignments[i] ELSE "None",
                    vrow, border_style, row_bg)

RECURSIVE RowColumns(_, _, _, _, _, _, _)
RowColumns(wrapped, ws, alignments, i, vrow, border_style, row_bg) ==
    IF i > Len(ws) THEN <<>>
    ELSE CellColumn(wrapped[i], ws[i],
                    IF i <= Len(alignments) THEN alignments[i] ELSE "None",
                    vrow, border_style, row_bg)
         \o RowColumns(wrapped, ws, alignments, i + 1, vrow, border_style, row_bg)

\* lines 789-852 of build_wrapped_row: the visual rows, given the wrapped cells
WrappedRowLines(wrapped, ws, alignments, border_style, row_bg) ==
    LET num_visual_rows == IF ws = <<>> THEN 1
                           ELSE MaxOf([i \in 1..Len(ws) |-> Len(wrapped[i])])
        pad_row == IF num_visual_rows > 1
                   THEN <<build_empty_row(ws, border_style, "None")>>
                   ELSE <<>>
    IN pad_row
       \o [v \in 1..num_visual_rows |->
              <<Span(<<"VBAR">>, border_style)>>
              \o RowColumns(wrapped, ws, alignments, 1, v - 1, border_style, row_bg)]
       \o pad_row

build_wrapped_row(cells, ws, alignments, border_style, cell_base_style, row_bg, max_lines) ==
    WrappedRowLines([i \in 1..Len(ws) |->
                        wrap_cell_spans(IF i <= Len(cells) THEN cells[i] ELSE <<>>,
                                        ws[i], max_lines, cell_base_style)],
                    ws, alignments, border_style, row_bg)

\* lines 447-458: header_w.max(max_body).max(3) for column i
NaturalWidth(header, rows, i) ==
    LET header_w == cell_text_width(header[i])
        body == [r \in 1..Len(rows) |->
                    IF i <= Len(rows[r]) THEN cell_text_width(rows[r][i]) ELSE 0]
        max_body == IF rows = <<>> THEN 0 ELSE MaxOf(body)
    IN Max(Max(header_w, max_body), 3)

RowBgMut(row_idx) == "Indexed235"

\* lines 478-480: the zebra background of the body rows with odd index
RowBg(row_idx) == IF row_idx % 2 = 1 THEN "Indexed235" ELSE "None"

RECURSIVE BodyLines(_, _, _, _, _)
\* lines 479-491: the body rows, odd 0-based indices on the zebra background
BodyLines(rows, row_idx, col_widths, alignments, border_style) ==
    IF row_idx + 1 > Len(rows) THEN <<>>
    ELSE build_wrapped_row(rows[row_idx + 1], col_widths, alignments, border_style,
                           DefaultStyle, RowBg(row_idx), 5)
         \o BodyLines(rows, row_idx + 1, col_widths, alignments, border_style)

\* lines 463-493 of render_table: the lines pushed for the budgeted col_widths
TableLines(header, rows, alignments, col_widths) ==
    <<build_border(col_widths, "TOPLEFT", "TOPMID", "TOPRIGHT", DarkGray)>>
    \o build_wrapped_row(header, col_widths, alignments, DarkGray, BoldStyle, "None", 5)
    \o <<build_border(col_widths, "MIDLEFT", "MIDMID", "MIDRIGHT", DarkGray)>>
    \o BodyLines(rows, 0, col_widths, alignments, DarkGray)
    \o <<build_border(col_widths, "BOTLEFT", "BOTMID", "BOTRIGHT", DarkGray)>>

\* render_table: the lines it pushes onto self.lines
render_table(header, rows, alignments, w) ==
    IF Len(header) = 0 THEN <<>>
    ELSE TableLines(header, rows, alignments,
                    budget_columns([i \in 1..Len(header) |-> NaturalWidth(header, rows, i)],
                                   w))

\* ------------------------------------------------ one row of render_table
MaxRowIdx == 1

\* The cells of a row: a word; inline code followed by a word; six words.
RowCellContents ==
    {<<Span(<<"a">>, DefaultStyle)>>,
     <<Span(<<"BACKTICK", "a", "BACKTICK">>, CodeStyle), Span(<<" ", "a">>, DefaultStyle)>>,
     <<Span(<<"a", " ", "a", " ", "a", " ", "a", " ", "a", " ", "a">>, DefaultStyle)>>}

\* The row build_wrapped_row is called for.
HeaderRow == [header |-> TRUE, idx |-> 0]

BodyRow(row_idx) == [header |-> FALSE, idx |-> row_idx]

\* lines 469 and 485: the base style of the header's and of a body row's cells
RowBaseStyle(row) == IF row.header THEN BoldStyle ELSE DefaultStyle

\* lines 470 and 480: the background handed to build_wrapped_row
RowBackground(row) == IF row.header THEN "None" ELSE RowBg(row.idx)

\* render_table is about to call build_wrapped_row for the header or for a
\* body row: budgeted widths, the row's cells (a row may hold none), the
\* table's alignments (a table may record none).
InitRow ==
    /\ r_row \in {HeaderRow} \cup {BodyRow(idx) : idx \in 0..MaxRowIdx}
    /\ r_widths \in UNION {[1..n -> 0..MaxWrapWidth] : n \in 1..MaxTableCols}
    /\ r_cells \in {<<>>} \cup [1..Len(r_widths) -> RowCellContents]
    /\ r_alignments \in
          {<<>>} \cup {[i \in 1..Len(r_widths) |-> a] :
                          a \in {"None", "Left", "Center", "Right"}}
    /\ r_wrapped = <<>>
    /\ r_lines = <<>>
    /\ rowpc = "call"
    /\ BudgetIdle
    /\ WrapIdle
    /\ ViewIdle
    /\ RenderIdle

\* lines 784-790: every column's cell is wrapped to its width, at most 5 lines
RowWrap ==
    /\ rowpc = "call"
    /\ r_wrapped' = [i \in 1..Len(r_widths) |->
                        wrap_cell_spans(IF i <= Len(r_cells) THEN r_cells[i] ELSE <<>>,
                                        r_widths[i], 5, RowBaseStyle(r_row))]
    /\ rowpc' = "wrapped"
    /\ UNCHANGED <<r_row, r_cells, r_widths, r_alignments, r_lines>>
    /\ UNCHANGED <<budgetVars, wrapVars, viewVars, renderVars>>

\* lines 792-852: the visual rows are built and returned
RowEmit ==
    /\ rowpc = "wrapped"
    /\ r_lines' = WrappedRowLines(r_wrapped, r_widths, r_alignments, DarkGray,
                                  RowBackground(r_row))
    /\ rowpc' = "done"
    /\ UNCHANGED <<r_row, r_cells, r_widths, r_alignments, r_wrapped>>
    /\ UNCHANGED <<budgetVars, wrapVars, viewVars, renderVars>>

NextRow == RowWrap \/ RowEmit

SpecRow == InitRow /\ [][NextRow]_vars

\* ------------------------------------------------- claims on a table row
\* n: the number of visual lines of the row's widest-wrapping cell.
VisualLines ==
    CHOOSE n \in {Len(r_wrapped[i]) : i \in 1..Len(r_wrapped)} :
        \A i \in 1..Len(r_wrapped) : Len(r_wrapped[i]) <= n

\* The characters of a line are spaces only.
OnlySpaces(content) == \A k \in 1..Len(content) : content[k] = " "

\* A blank bordered row: a border glyph, then for every column its width plus
\* two spaces and a border glyph.
IsBlankBorderedRow(line) ==
    /\ Len(line) = 2 * Len(r_widths) + 1
    /\ \A k \in 1..Len(line) :
          IF k % 2 = 1
          THEN line[k].content = <<"VBAR">>
          ELSE /\ OnlySpaces(line[k].content)
               /\ Len(line[k].content) = r_widths[k \div 2] + 2

\* C21: a row whose widest-wrapping cell has n visual lines yields exactly n
\* lines when n = 1 and n + 2 lines when n > 1, a blank bordered row directly
\* above and one directly below; with the limit of 5 lines per cell n never
\* exceeds 5.
C21_RowLineCount ==
    rowpc = "done" =>
        /\ VisualLines >= 1 /\ VisualLines <= 5
        /\ VisualLines = 1 => Len(r_lines) = 1 /\ ~IsBlankBorderedRow(r_lines[1])
        /\ VisualLines > 1 =>
              /\ Len(r_lines) = VisualLines + 2
              /\ IsBlankBorderedRow(r_lines[1])
              /\ IsBlankBorderedRow(r_lines[VisualLines + 2])

\* A row of two columns has been built whose first cell was cut at 5 lines
\* and whose second cell has one line.
C21_Witness ==
    /\ rowpc = "done"
    /\ Len(r_widths) = 2
    /\ Len(r_wrapped[1]) = 5
    /\ Len(r_wrapped[2]) = 1
    /\ \E k \in 1..Len(r_wrapped[1][5]) : r_wrapped[1][5][k].content = <<"ELLIPSIS">>
    /\ Len(r_lines) = 7

RECURSIVE Segments(_)
\* The runs of spans that each end before a border glyph.
Segments(sps) ==
    IF sps = <<>> THEN <<>>
    ELSE IF Head(sps).content = <<"VBAR">>
    THEN <<<<>>>> \o Segments(Tail(sps))
    ELSE LET rest == Segments(Tail(sps)) IN
         IF rest = <<>> THEN <<<<Head(sps)>>>>
         ELSE <<<<Head(sps)>> \o Head(rest)>> \o Tail(rest)

RECURSIVE CharsOf(_)
\* The characters of a sequence of spans.
CharsOf(sps) == IF sps = <<>> THEN <<>> ELSE Head(sps).content \o CharsOf(Tail(sps))

\* The cell line of column i on visual line v (1-based); none when the cell
\* has fewer lines.
CellLine(i, v) == IF v <= Len(r_wrapped[i]) THEN r_wrapped[i][v] ELSE <<>>

\* Column width minus content width, not below 0.
Padding(i, v) ==
    LET content == StrWidth(CharsOf(CellLine(i, v))) IN
    IF content <= r_widths[i] THEN r_widths[i] - content ELSE 0

\* The left padding the contract gives column i on visual line v.
ExpectedPadLeft(i, v) ==
    IF v > 1 \/ i > Len(r_alignments) THEN 0
    ELSE CASE r_alignments[i] = "Right" -> Padding(i, v)
           [] r_alignments[i] = "Center" -> Padding(i, v) \div 2
           [] OTHER -> 0

\* The content lines among the lines of the row.
ContentLine(v) == IF VisualLines > 1 THEN r_lines[v + 1] ELSE r_lines[v]

\* What visual line v shows after its left border glyph, column by column.
Columns(v) == Segments(Tail(ContentLine(v)))

\* C22: with padding = column width - content width, the left padding on a
\* cell's first visual line is 0 for left, none or missing alignment, padding
\* for right and floor(padding / 2) for center; on every continuation line it
\* is 0 whatever the alignment; and left padding + content + right padding is
\* the column width whenever the content fits the column.
C22_AlignmentFirstLineOnly ==
    rowpc = "done" =>
        \A v \in 1..VisualLines :
           /\ Len(Columns(v)) = Len(r_widths)
           /\ \A i \in 1..Len(r_widths) :
                 LET left == ExpectedPadLeft(i, v)
                     content == CharsOf(CellLine(i, v))
                     chars == CharsOf(Columns(v)[i])
                 IN /\ chars = <<" ">> \o Repeat(" ", left) \o content
                                \o Repeat(" ", Padding(i, v) - left) \o <<" ">>
                    /\ StrWidth(content) <= r_widths[i] =>
                          StrWidth(chars) = r_widths[i] + 2

\* A right-aligned column has a continuation line narrower than the column,
\* and a first line narrower than the column in another column.
C22_Witness ==
    /\ rowpc = "done"
    /\ Len(r_widths) = 2
    /\ r_alignments # <<>> /\ r_alignments[1] = "Right"
    /\ Len(r_wrapped[1]) >= 2
    /\ Padding(1, 2) > 0
    /\ Padding(2, 1) = 2

\* The spans of column i on visual line v that show the cell's content.
ContentSpans(i, v) ==
    LET segment == Columns(v)[i]
        first == IF ExpectedPadLeft(i, v) > 0 THEN 3 ELSE 2
    IN SubSeq(segment, first, first + Len(CellLine(i, v)) - 1)

\* C23: in body rows with odd 0-based index every content span without an
\* explicit background receives the zebra background and every span with its
\* own background keeps it; in even body rows and in the header no span's
\* background is changed.
C23_ZebraFillsOnlyUnsetBackground ==
    rowpc = "done" =>
        \A v \in 1..VisualLines : \A i \in 1..Len(r_widths) :
           LET shown == ContentSpans(i, v)
               cell == CellLine(i, v)
           IN /\ Len(shown) = Len(cell)
              /\ \A k \in 1..Len(cell) :
                    /\ shown[k].content = cell[k].content
                    /\ shown[k].style.fg = cell[k].style.fg
                    /\ shown[k].style.mods = cell[k].style.mods
                    /\ shown[k].style.bg =
                          IF ~r_row.header /\ r_row.idx % 2 = 1 /\ cell[k].style.bg = "None"
                          THEN "Indexed235"
                          ELSE cell[k].style.bg

\* The body row of index 1 has been built with a cell of two lines that holds
\* a span with its own background and a span without.
C23_Witness ==
    /\ rowpc = "done"
    /\ ~r_row.header /\ r_row.idx = 1
    /\ \E i \in 1..Len(r_widths) :
          /\ Len(r_wrapped[i]) = 2
          /\ r_wrapped[i][1] # <<>> /\ r_wrapped[i][2] # <<>>
          /\ r_wrapped[i][1][1].style.bg = CodeStyle.bg
          /\ r_wrapped[i][2][1].style.bg = "None"
          /\ ContentSpans(i, 1)[1].style.bg = CodeStyle.bg
          /\ ContentSpans(i, 2)[1].style.bg = "Indexed235"

\* ------------------------------------------------- document state machine
\* An event of the parser: its kind and what it carries.
Event(kind, arg) == [e |-> kind, arg |-> arg]

\* Option<u64> of Tag::List
NoStart == [some |-> FALSE, val |-> 0]

SomeStart(n) == [some |-> TRUE, val |-> n]

\* The lines and the pending line buffer, which change together.
Buf(ls, sp) == [lines |-> ls, spans |-> sp]

flush_lineMut(b) == Buf(b.lines, <<>>)

\* Renderer::flush_line
flush_line(b) ==
    IF b.spans # <<>> THEN Buf(Append(b.lines, b.spans), <<>>) ELSE b

\* Renderer::push_blank
push_blank(b) ==
    LET f == flush_line(b) IN Buf(Append(f.lines, <<>>), f.spans)

\* Renderer::current_style
current_style == IF style_stack # <<>> THEN style_stack[Len(style_stack)] ELSE DefaultStyle

\* Renderer::blockquote_prefix: one prefix glyph (bar and space) per level
blockquote_prefix == [i \in 1..blockquote_depth |-> Span(<<"QBAR", " ">>, DarkGray)]

\* Renderer::list_indent
list_indent == Repeat(" ", 2 * SatSub(Len(list_stack), 1))

DigitChars == <<"0", "1", "2", "3", "4", "5", "6", "7", "8", "9">>

RECURSIVE FormatNumber(_)
\* format!("{}", n) of an unsigned number
FormatNumber(n) ==
    IF n < 10 THEN <<DigitChars[n + 1]>>
    ELSE FormatNumber(n \div 10) \o <<DigitChars[(n % 10) + 1]>>

\* process(): the event the loop is about to dispatch
AtEvent(kind) == rpc = "run" /\ epos <= Len(events) /\ events[epos].e = kind

\* The first of two calls records the Renderer it has reached.
Record ==
    /\ UNCHANGED pass
    /\ first_pass' = IF pass = 1 THEN Append(first_pass, rendererVars') ELSE first_pass

\* The loop moves on to the next event.
Advance ==
    /\ epos' = epos + 1
    /\ UNCHANGED <<events, rpc, width>>
    /\ UNCHANGED <<budgetVars, wrapVars, rowVars, viewVars>>
    /\ Record

inlineVars == <<style_stack, link_url>>

codeVars == <<in_code_block, code_lang, code_buf>>

tableVars == <<in_table, table_alignments, table_header, table_rows, current_cell,
               in_table_header>>

\* Tag::Paragraph
StartParagraph ==
    /\ AtEvent("StartParagraph")
    /\ IF in_table
       THEN UNCHANGED <<lines, spans, item_paragraph_count>>
       ELSE IF list_stack # <<>>
            THEN /\ item_paragraph_count' = item_paragraph_count + 1
                 /\ IF item_paragraph_count + 1 > 1
                    THEN LET b == flush_line(Buf(lines, spans)) IN
                         lines' = b.lines /\ spans' = b.spans
                    ELSE UNCHANGED <<lines, spans>>
            ELSE /\ LET b == flush_line(Buf(lines, spans)) IN
                    lines' = b.lines /\ spans' = b.spans
                 /\ UNCHANGED item_paragraph_count
    /\ UNCHANGED <<list_stack, blockquote_depth, inlineVars, codeVars, tableVars>>
    /\ Advance

\* TagEnd::Paragraph
EndParagraph ==
    /\ AtEvent("EndParagraph")
    /\ IF in_table
       THEN UNCHANGED <<lines, spans>>
       ELSE LET f == flush_line(Buf(lines, spans))
                b == IF list_stack = <<>> THEN push_blank(f) ELSE f
            IN lines' = b.lines /\ spans' = b.spans
    /\ UNCHANGED <<list_stack, blockquote_depth, item_paragraph_count, inlineVars,
                   codeVars, tableVars>>
    /\ Advance

\* Tag::BlockQuote
StartBlockQuote ==
    /\ AtEvent("StartBlockQuote")
    /\ LET b == flush_line(Buf(lines, spans)) IN lines' = b.lines /\ spans' = b.spans
    /\ blockquote_depth' = blockquote_depth + 1
    /\ UNCHANGED <<list_stack, item_paragraph_count, inlineVars, codeVars, tableVars>>
    /\ Advance

\* TagEnd::BlockQuote
EndBlockQuote ==
    /\ AtEvent("EndBlockQuote")
    /\ blockquote_depth' = SatSub(blockquote_depth, 1)
    /\ LET b == flush_line(Buf(lines, spans)) IN lines' = b.lines /\ spans' = b.spans
    /\ UNCHANGED <<list_stack, item_paragraph_count, inlineVars, codeVars, tableVars>>
    /\ Advance

\* Tag::List(start)
StartList ==
    /\ AtEvent("StartList")
    /\ LET b == flush_line(Buf(lines, spans)) IN lines' = b.lines /\ spans' = b.spans
    /\ LET start == events[epos].arg IN
       list_stack' = Append(list_stack,
                            [ordered |-> start.some,
                             counter |-> IF start.some THEN start.val ELSE 1])
    /\ UNCHANGED <<blockquote_depth, item_paragraph_count, inlineVars, codeVars,
                   tableVars>>
    /\ Advance

EndListMut ==
    /\ AtEvent("EndList")
    /\ list_stack' = IF list_stack = <<>> THEN <<>>
                     ELSE SubSeq(list_stack, 1, Len(list_stack) - 1)
    /\ LET b == push_blank(flush_line(Buf(lines, spans))) IN
       lines' = b.lines /\ spans' = b.spans
    /\ UNCHANGED <<blockquote_depth, item_paragraph_count, inlineVars, codeVars,
                   tableVars>>
    /\ Advance

\* TagEnd::List
EndList ==
    /\ AtEvent("EndList")
    /\ list_stack' = IF list_stack = <<>> THEN <<>>
                     ELSE SubSeq(list_stack, 1, Len(list_stack) - 1)
    /\ IF list_stack' = <<>>
       THEN LET b == push_blank(flush_line(Buf(lines, spans))) IN
            lines' = b.lines /\ spans' = b.spans
       ELSE UNCHANGED <<lines, spans>>
    /\ UNCHANGED <<blockquote_depth, item_paragraph_count, inlineVars, codeVars,
                   tableVars>>
    /\ Advance

MarkerMut(depth) == IF depth = 1 THEN "BULLET1" ELSE "BULLET2"

\* lines 182-186: the marker of an unordered item, by nesting depth
Marker(depth) ==
    CASE depth = 1 -> "BULLET1"
      [] depth = 2 -> "BULLET2"
      [] OTHER -> "BULLET3"

\* Tag::Item
StartItem ==
    /\ AtEvent("StartItem")
    /\ item_paragraph_count' = 0
    /\ LET b == flush_line(Buf(lines, spans))
           indent == list_indent
           n == Len(list_stack)
       IN /\ lines' = b.lines
          /\ IF n = 0
             THEN /\ spans' = blockquote_prefix
                  /\ UNCHANGED list_stack
             ELSE IF list_stack[n].ordered
             THEN /\ spans' = Append(blockquote_prefix,
                                     Span(indent \o FormatNumber(list_stack[n].counter)
                                                 \o <<".", " ">>,
                                          DarkGray))
                  /\ list_stack' = [list_stack EXCEPT ![n].counter = @ + 1]
             ELSE /\ spans' = Append(blockquote_prefix,
                                     Span(indent \o <<Marker(n), " ">>, DarkGray))
                  /\ UNCHANGED list_stack
    /\ UNCHANGED <<blockquote_depth, inlineVars, codeVars, tableVars>>
    /\ Advance

EndItemMut ==
    /\ AtEvent("EndItem")
    /\ LET b == push_blank(Buf(lines, spans)) IN lines' = b.lines /\ spans' = b.spans
    /\ UNCHANGED <<list_stack, blockquote_depth, item_paragraph_count, inlineVars,
                   codeVars, tableVars>>
    /\ Advance

\* TagEnd::Item
EndItem ==
    /\ AtEvent("EndItem")
    /\ LET b == flush_line(Buf(lines, spans)) IN lines' = b.lines /\ spans' = b.spans
    /\ UNCHANGED <<list_stack, blockquote_depth, item_paragraph_count, inlineVars,
                   codeVars, tableVars>>
    /\ Advance

\* Renderer::text
Text ==
    /\ AtEvent("Text")
    /\ LET text == events[epos].arg IN
       IF in_code_block
       THEN /\ code_buf' = code_buf \o text
            /\ UNCHANGED <<lines, spans, current_cell>>
       ELSE IF in_table
       THEN /\ current_cell' = Append(current_cell, Span(text, current_style))
            /\ UNCHANGED <<lines, spans, code_buf>>
       ELSE /\ spans' = Append(IF blockquote_depth > 0 /\ spans = <<>>
                               THEN blockquote_prefix
                               ELSE spans,
                               Span(text, current_style))
            /\ UNCHANGED <<lines, current_cell, code_buf>>
    /\ UNCHANGED <<list_stack, blockquote_depth, item_paragraph_count, inlineVars,
                   in_code_block, code_lang, in_table, table_alignments, table_header,
                   table_rows, in_table_header>>
    /\ Advance

\* Renderer::inline_code
InlineCode ==
    /\ AtEvent("Code")
    /\ LET sp == Span(<<"BACKTICK">> \o events[epos].arg \o <<"BACKTICK">>, CodeStyle) IN
       IF in_table
       THEN /\ current_cell' = Append(current_cell, sp)
            /\ UNCHANGED spans
       ELSE /\ spans' = Append(spans, sp)
            /\ UNCHANGED current_cell
    /\ UNCHANGED <<lines, list_stack, blockquote_depth, item_paragraph_count, inlineVars,
                   codeVars, in_table, table_alignments, table_header, table_rows,
                   in_table_header>>
    /\ Advance

\* Renderer::soft_break
SoftBreak ==
    /\ AtEvent("SoftBreak")
    /\ spans' = Append(spans, Span(<<" ">>, DefaultStyle))
    /\ UNCHANGED <<lines, list_stack, blockquote_depth, item_paragraph_count, inlineVars,
                   codeVars, tableVars>>
    /\ Advance

\* Tag::Table(alignments)
StartTable ==
    /\ AtEvent("StartTable")
    /\ LET b == flush_line(Buf(lines, spans)) IN lines' = b.lines /\ spans' = b.spans
    /\ in_table' = TRUE
    /\ table_alignments' = events[epos].arg
    /\ table_header' = <<>>
    /\ table_rows' = <<>>
    /\ UNCHANGED <<list_stack, blockquote_depth, item_paragraph_count, inlineVars,
                   codeVars, current_cell, in_table_header>>
    /\ Advance

\* Tag::TableHead
StartTableHead ==
    /\ AtEvent("StartTableHead")
    /\ in_table_header' = TRUE
    /\ UNCHANGED <<lines, spans, list_stack, blockquote_depth, item_paragraph_count,
                   inlineVars, codeVars, in_table, table_alignments, table_header,
                   table_rows, current_cell>>
    /\ Advance

\* TagEnd::TableHead
EndTableHead ==
    /\ AtEvent("EndTableHead")
    /\ in_table_header' = FALSE
    /\ UNCHANGED <<lines, spans, list_stack, blockquote_depth, item_paragraph_count,
                   inlineVars, codeVars, in_table, table_alignments, table_header,
                   table_rows, current_cell>>
    /\ Advance

\* Tag::TableRow
StartTableRow ==
    /\ AtEvent("StartTableRow")
    /\ table_rows' = IF ~in_table_header THEN Append(table_rows, <<>>) ELSE table_rows
    /\ UNCHANGED <<lines, spans, list_stack, blockquote_depth, item_paragraph_count,
                   inlineVars, codeVars, in_table, table_alignments, table_header,
                   current_cell, in_table_header>>
    /\ Advance

\* TagEnd::TableRow
EndTableRow ==
    /\ AtEvent("EndTableRow")
    /\ UNCHANGED <<lines, spans, list_stack, blockquote_depth, item_paragraph_count,
                   inlineVars, codeVars, tableVars>>
    /\ Advance

\* Tag::TableCell
StartTableCell ==
    /\ AtEvent("StartTableCell")
    /\ current_cell' = <<>>
    /\ UNCHANGED <<lines, spans, list_stack, blockquote_depth, item_paragraph_count,
                   inlineVars, codeVars, in_table, table_alignments, table_header,
                   table_rows, in_table_header>>
    /\ Advance

\* TagEnd::TableCell
EndTableCell ==
    /\ AtEvent("EndTableCell")
    /\ current_cell' = <<>>
    /\ IF in_table_header
       THEN /\ table_header' = Append(table_header, current_cell)
            /\ UNCHANGED table_rows
       ELSE /\ table_rows' = IF table_rows # <<>>
                             THEN [table_rows EXCEPT ![Len(table_rows)] =
                                      Append(@, current_cell)]
                             ELSE table_rows
            /\ UNCHANGED table_header
    /\ UNCHANGED <<lines, spans, list_stack, blockquote_depth, item_paragraph_count,
                   inlineVars, codeVars, in_table, table_alignments, in_table_header>>
    /\ Advance

\* TagEnd::Table
EndTable ==
    /\ AtEvent("EndTable")
    /\ LET b == push_blank(Buf(lines \o render_table(table_header, table_rows,
                                                      table_alignments, width),
                               spans))
       IN lines' = b.lines /\ spans' = b.spans
    /\ in_table' = FALSE
    /\ UNCHANGED <<list_stack, blockquote_depth, item_paragraph_count, inlineVars,
                   codeVars, table_alignments, table_header, table_rows, current_cell,
                   in_table_header>>
    /\ Advance

\* ------------------------------------------- headings, inline styles, links
\* lines 132-137: the colour of a heading level
HeadingColor(level) ==
    CASE level = 1 -> "Cyan"
      [] level = 2 -> "Green"
      [] level = 3 -> "Yellow"
      [] OTHER -> "White"

HeadingPrefixMut(level) == Repeat("#", level) \o <<" ">>

\* lines 132-137: the marker prefix of a heading level, capped at four marks
HeadingPrefix(level) ==
    CASE level = 1 -> <<"#", " ">>
      [] level = 2 -> <<"#", "#", " ">>
      [] level = 3 -> <<"#", "#", "#", " ">>
      [] OTHER -> <<"#", "#", "#", "#", " ">>

\* Style::add_modifier
add_modifier(style, modifier) == [style EXCEPT !.mods = @ \cup {modifier}]

\* line 138: Style::default().fg(color).add_modifier(Modifier::BOLD)
HeadingStyle(level) == add_modifier(Fg(HeadingColor(level)), "BOLD")

\* line 204: |s| s.fg(Color::Blue).add_modifier(Modifier::UNDERLINED)
LinkStyle(s) == add_modifier([s EXCEPT !.fg = "Blue"], "UNDERLINED")

\* line 197: |s| s.add_modifier(Modifier::ITALIC)
Italic(s) == add_modifier(s, "ITALIC")

\* line 198: |s| s.add_modifier(Modifier::BOLD)
Bold(s) == add_modifier(s, "BOLD")

\* line 200: |s| s.add_modifier(Modifier::CROSSED_OUT)
CrossedOut(s) == add_modifier(s, "CROSSED_OUT")

\* Renderer::push_style: the style stack after the push of the style the
\* modifier makes of the current style
push_style(new) == Append(style_stack, new)

pop_styleMut == SubSeq(style_stack, 1, Len(style_stack) - 1)

\* Renderer::pop_style: the style stack after the pop
pop_style ==
    IF Len(style_stack) > 1
    THEN SubSeq(style_stack, 1, Len(style_stack) - 1)
    ELSE style_stack

\* Tag::Heading
StartHeading ==
    /\ AtEvent("StartHeading")
    /\ LET b == flush_line(Buf(lines, spans))
           style == HeadingStyle(events[epos].arg)
       IN /\ lines' = b.lines
          /\ style_stack' = Append(style_stack, style)
          /\ spans' = Append(b.spans, Span(HeadingPrefix(events[epos].arg), style))
    /\ UNCHANGED <<list_stack, blockquote_depth, item_paragraph_count, link_url,
                   codeVars, tableVars>>
    /\ Advance

\* TagEnd::Heading
EndHeading ==
    /\ AtEvent("EndHeading")
    /\ style_stack' = pop_style
    /\ LET b == push_blank(flush_line(Buf(lines, spans))) IN
       lines' = b.lines /\ spans' = b.spans
    /\ UNCHANGED <<list_stack, blockquote_depth, item_paragraph_count, link_url,
                   codeVars, tableVars>>
    /\ Advance

\* Tag::Emphasis
StartEmphasis ==
    /\ AtEvent("StartEmphasis")
    /\ style_stack' = push_style(Italic(current_style))
    /\ UNCHANGED <<lines, spans, list_stack, blockquote_depth, item_paragraph_count,
                   link_url, codeVars, tableVars>>
    /\ Advance

\* Tag::Strong
StartStrong ==
    /\ AtEvent("StartStrong")
    /\ style_stack' = push_style(Bold(current_style))
    /\ UNCHANGED <<lines, spans, list_stack, blockquote_depth, item_paragraph_count,
                   link_url, codeVars, tableVars>>
    /\ Advance

\* Tag::Strikethrough
StartStrikethrough ==
    /\ AtEvent("StartStrikethrough")
    /\ style_stack' = push_style(CrossedOut(current_style))
    /\ UNCHANGED <<lines, spans, list_stack, blockquote_depth, item_paragraph_count,
                   link_url, codeVars, tableVars>>
    /\ Advance

\* TagEnd::Emphasis | TagEnd::Strong | TagEnd::Strikethrough
EndInline ==
    /\ \E kind \in {"EndEmphasis", "EndStrong", "EndStrikethrough"} : AtEvent(kind)
    /\ style_stack' = pop_style
    /\ UNCHANGED <<lines, spans, list_stack, blockquote_depth, item_paragraph_count,
                   link_url, codeVars, tableVars>>
    /\ Advance

\* Tag::Link
StartLink ==
    /\ AtEvent("StartLink")
    /\ style_stack' = push_style(LinkStyle(current_style))
    /\ link_url' = events[epos].arg
    /\ UNCHANGED <<lines, spans, list_stack, blockquote_depth, item_paragraph_count,
                   codeVars, tableVars>>
    /\ Advance

\* line 289: format!(" ({url})")
UrlText(url) == <<" ", "(">> \o url \o <<")">>

\* TagEnd::Link
EndLink ==
    /\ AtEvent("EndLink")
    /\ style_stack' = pop_style
    /\ link_url' = <<>>
    /\ spans' = Append(spans, Span(UrlText(link_url), DarkGray))
    /\ UNCHANGED <<lines, list_stack, blockquote_depth, item_paragraph_count,
                   codeVars, tableVars>>
    /\ Advance

\* -------------------------------------------------------------- code blocks
RECURSIVE CodeLines(_)
\* str::lines: the text between line feeds; a final line feed ends the last
\* line and starts no new one
CodeLines(code) ==
    IF code = <<>> THEN <<>>
    ELSE IF \E i \in 1..Len(code) : code[i] = "NL"
    THEN LET i == CHOOSE j \in 1..Len(code) :
                      code[j] = "NL" /\ \A k \in 1..(j - 1) : code[k] # "NL"
         IN <<SubSeq(code, 1, i - 1)>> \o CodeLines(SubSeq(code, i + 1, Len(code)))
    ELSE <<code>>

\* highlight_code: one styled line per line of the code; the colours come
\* from the syntax found for the language tag, plain text when there is none
highlight_code(code, lang) ==
    LET ls == CodeLines(code) IN
    [i \in 1..Len(ls) |->
        <<Span(ls[i], Fg(IF lang = "None" THEN "ThemePlain" ELSE "ThemeSyntax"))>>]

\* Tag::CodeBlock(kind); the event carries the words of the fence's info
\* string, none for an indented block
StartCodeBlock ==
    /\ AtEvent("StartCodeBlock")
    /\ LET b == flush_line(Buf(lines, spans)) IN lines' = b.lines /\ spans' = b.spans
    /\ in_code_block' = TRUE
    /\ code_lang' = IF events[epos].arg = <<>> THEN "None" ELSE events[epos].arg[1]
    /\ code_buf' = <<>>
    /\ UNCHANGED <<list_stack, blockquote_depth, item_paragraph_count, inlineVars,
                   tableVars>>
    /\ Advance

\* lines 303-308: a highlighted line behind the blockquote prefix and the indent
CodeLine(line) == blockquote_prefix \o <<Span(<<" ", " ">>, DefaultStyle)>> \o line

EndCodeBlockMut ==
    /\ AtEvent("EndCodeBlock")
    /\ in_code_block' = FALSE
    /\ code_buf' = <<>>
    /\ code_lang' = "None"
    /\ LET highlighted == highlight_code(code_buf, code_lang)
           b == push_blank(Buf(lines \o [i \in 1..Len(highlighted) |->
                                            <<Span(<<" ", " ">>, DefaultStyle)>>
                                            \o highlighted[i]],
                               spans))
       IN lines' = b.lines /\ spans' = b.spans
    /\ UNCHANGED <<list_stack, blockquote_depth, item_paragraph_count, inlineVars,
                   tableVars>>
    /\ Advance

\* TagEnd::CodeBlock
EndCodeBlock ==
    /\ AtEvent("EndCodeBlock")
    /\ in_code_block' = FALSE
    /\ code_buf' = <<>>
    /\ code_lang' = "None"
    /\ LET highlighted == highlight_code(code_buf, code_lang)
           b == push_blank(Buf(lines \o [i \in 1..Len(highlighted) |->
                                            CodeLine(highlighted[i])],
                               spans))
       IN lines' = b.lines /\ spans' = b.spans
    /\ UNCHANGED <<list_stack, blockquote_depth, item_paragraph_count, inlineVars,
                   tableVars>>
    /\ Advance

\* -------------------------------------------------------------- leaf events
\* Renderer::hard_break
HardBreak ==
    /\ AtEvent("HardBreak")
    /\ LET b == flush_line(Buf(lines, spans)) IN
       /\ lines' = b.lines
       /\ spans' = IF blockquote_depth > 0 THEN blockquote_prefix ELSE b.spans
    /\ UNCHANGED <<list_stack, blockquote_depth, item_paragraph_count, inlineVars,
                   codeVars, tableVars>>
    /\ Advance

\* Line::styled(content, style): a line of one run in the given style
StyledLine(content, style) == <<Span(content, style)>>

\* Renderer::rule
Rule ==
    /\ AtEvent("Rule")
    /\ LET f == flush_line(Buf(lines, spans))
           b == push_blank(Buf(Append(f.lines,
                                      StyledLine(Repeat("HBAR", SatSub(width, 2)),
                                                 DarkGray)),
                               f.spans))
       IN lines' = b.lines /\ spans' = b.spans
    /\ UNCHANGED <<list_stack, blockquote_depth, item_paragraph_count, inlineVars,
                   codeVars, tableVars>>
    /\ Advance

\* Renderer::task_marker
TaskMarker ==
    /\ AtEvent("TaskListMarker")
    /\ spans' = Append(spans,
                       IF events[epos].arg
                       THEN Span(<<"[", "CHECK", "]", " ">>, Fg("Green"))
                       ELSE Span(<<"[", " ", "]", " ">>, DarkGray))
    /\ UNCHANGED <<lines, list_stack, blockquote_depth, item_paragraph_count,
                   inlineVars, codeVars, tableVars>>
    /\ Advance

\* Modifier::DIM on the default style, the style of raw HTML
DimStyle == add_modifier(DefaultStyle, "DIM")

\* Style::default().fg(Color::Yellow).add_modifier(Modifier::ITALIC)
MathStyle == add_modifier(Fg("Yellow"), "ITALIC")

\* Renderer::raw_html
RawHtml ==
    /\ AtEvent("Html")
    /\ LET f == flush_line(Buf(lines, spans))
           ls == CodeLines(events[epos].arg)
       IN /\ lines' = f.lines \o [i \in 1..Len(ls) |-> StyledLine(ls[i], DimStyle)]
          /\ spans' = f.spans
    /\ UNCHANGED <<list_stack, blockquote_depth, item_paragraph_count, inlineVars,
                   codeVars, tableVars>>
    /\ Advance

\* Renderer::inline_raw_html
InlineHtml ==
    /\ AtEvent("InlineHtml")
    /\ spans' = Append(spans, Span(events[epos].arg, DimStyle))
    /\ UNCHANGED <<lines, list_stack, blockquote_depth, item_paragraph_count,
                   inlineVars, codeVars, tableVars>>
    /\ Advance

\* Renderer::footnote_ref
FootnoteRef ==
    /\ AtEvent("FootnoteReference")
    /\ spans' = Append(spans, Span(<<"[">> \o events[epos].arg \o <<"]">>, Fg("Cyan")))
    /\ UNCHANGED <<lines, list_stack, blockquote_depth, item_paragraph_count,
                   inlineVars, codeVars, tableVars>>
    /\ Advance

\* Renderer::math
Math ==
    /\ AtEvent("InlineMath")
    /\ spans' = Append(spans, Span(events[epos].arg, MathStyle))
    /\ UNCHANGED <<lines, list_stack, blockquote_depth, item_paragraph_count,
                   inlineVars, codeVars, tableVars>>
    /\ Advance

\* Renderer::display_math
DisplayMath ==
    /\ AtEvent("DisplayMath")
    /\ LET f == flush_line(Buf(lines, spans))
           b == push_blank(Buf(Append(f.lines, StyledLine(events[epos].arg, MathStyle)),
                               f.spans))
       IN lines' = b.lines /\ spans' = b.spans
    /\ UNCHANGED <<list_stack, blockquote_depth, item_paragraph_count, inlineVars,
                   codeVars, tableVars>>
    /\ Advance

\* process(), line 125: the stream has ended, flush the pending line
ProcessEnd ==
    /\ rpc = "run"
    /\ epos > Len(events)
    /\ LET b == flush_line(Buf(lines, spans)) IN lines' = b.lines /\ spans' = b.spans
    /\ rpc' = "done"
    /\ UNCHANGED <<list_stack, blockquote_depth, item_paragraph_count, inlineVars,
                   codeVars, tableVars, width, events, epos>>
    /\ UNCHANGED <<budgetVars, wrapVars, rowVars, viewVars>>
    /\ Record

RenderAgainMut ==
    /\ rpc = "done"
    /\ pass = 1
    /\ pass' = 2
    /\ lines' = <<>>
    /\ spans' = <<>>
    /\ epos' = 1
    /\ rpc' = "run"
    /\ UNCHANGED <<style_stack, list_stack, blockquote_depth, item_paragraph_count,
                   link_url, codeVars, tableVars, width>>
    /\ UNCHANGED <<events, first_pass, budgetVars, wrapVars, rowVars, viewVars>>

\* render_markdown called again with the same input: a new Renderer of the
\* same width processes the same events
RenderAgain ==
    /\ rpc = "done"
    /\ pass = 1
    /\ pass' = 2
    /\ lines' = <<>>
    /\ spans' = <<>>
    /\ style_stack' = <<DefaultStyle>>
    /\ list_stack' = <<>>
    /\ blockquote_depth' = 0
    /\ in_code_block' = FALSE
    /\ code_lang' = "None"
    /\ code_buf' = <<>>
    /\ in_table' = FALSE
    /\ table_alignments' = <<>>
    /\ table_header' = <<>>
    /\ table_rows' = <<>>
    /\ current_cell' = <<>>
    /\ in_table_header' = FALSE
    /\ link_url' = <<>>
    /\ item_paragraph_count' = 0
    /\ width' = width
    /\ epos' = 1
    /\ rpc' = "run"
    /\ UNCHANGED <<events, first_pass, budgetVars, wrapVars, rowVars, viewVars>>

\* ------------------------------------------------ event streams: lists
RECURSIVE Flatten(_)
\* The concatenation of a sequence of event sequences.
Flatten(ss) == IF ss = <<>> THEN <<>> ELSE Head(ss) \o Flatten(Tail(ss))

Ev(kind) == Event(kind, <<>>)

\* What the parser emits for one item: a tight item holds its text directly,
\* a loose item wraps it in a paragraph, a nested item holds its text and a
\* tight bullet list of one item.
ItemEvents(kind) ==
    CASE kind = "tight" ->
           <<Ev("StartItem"), Event("Text", <<"a">>), Ev("EndItem")>>
      [] kind = "loose" ->
           <<Ev("StartItem"), Ev("StartParagraph"), Event("Text", <<"a">>),
             Ev("EndParagraph"), Ev("EndItem")>>
      [] OTHER ->
           <<Ev("StartItem"), Event("Text", <<"a">>),
             Event("StartList", NoStart),
             Ev("StartItem"), Event("Text", <<"a">>), Ev("EndItem"),
             Ev("EndList"), Ev("EndItem")>>

ListEvents(start, kinds) ==
    <<Event("StartList", start)>>
    \o Flatten([i \in 1..Len(kinds) |-> ItemEvents(kinds[i])])
    \o <<Ev("EndList")>>

\* A list, optionally after a two-line paragraph and optionally inside a
\* blockquote.
ListDoc(start, kinds, preceded, quoted) ==
    (IF preceded
     THEN <<Ev("StartParagraph"), Event("Text", <<"a">>), Ev("SoftBreak"),
            Event("Text", <<"a">>), Ev("EndParagraph")>>
     ELSE <<>>)
    \o (IF quoted THEN <<Ev("StartBlockQuote")>> ELSE <<>>)
    \o ListEvents(start, kinds)
    \o (IF quoted THEN <<Ev("EndBlockQuote")>> ELSE <<>>)

ListDocs ==
    {ListDoc(start, kinds, preceded, quoted) :
        start \in {NoStart, SomeStart(1), SomeStart(9)},
        kinds \in UNION {[1..k -> {"tight", "loose", "nested"}] : k \in 1..MaxItems},
        preceded \in BOOLEAN,
        quoted \in BOOLEAN}

InitList ==
    /\ events \in ListDocs
    /\ epos = 1
    /\ rpc = "run"
    /\ RendererNew(80)
    /\ SinglePass
    /\ BudgetIdle
    /\ WrapIdle
    /\ RowIdle
    /\ ViewIdle

NextList ==
    \/ StartParagraph \/ EndParagraph \/ StartBlockQuote \/ EndBlockQuote
    \/ StartList \/ EndList \/ StartItem \/ EndItem \/ Text \/ SoftBreak
    \/ ProcessEnd

SpecList == InitList /\ [][NextList]_vars

\* ----------------------------------------------- event streams: tables
\* The inline content of a cell: a word, two words of which one is wide,
\* inline code followed by text.
CellContents ==
    {<<Event("Text", <<"a">>)>>,
     <<Event("Text", <<"a", " ", "W">>)>>,
     <<Event("Code", <<"a">>), Event("Text", <<" ", "a">>)>>}

CellEvents(content) == <<Ev("StartTableCell")>> \o content \o <<Ev("EndTableCell")>>

\* A table: its header cells, then nrows body rows of ncells cells each.
TableDoc(header, nrows, ncells, content, align) ==
    <<Event("StartTable", [i \in 1..Len(header) |-> align])>>
    \o <<Ev("StartTableHead")>>
    \o Flatten([i \in 1..Len(header) |-> CellEvents(header[i])])
    \o <<Ev("EndTableHead")>>
    \o Flatten([r \in 1..nrows |->
                   <<Ev("StartTableRow")>>
                   \o Flatten([i \in 1..ncells |-> CellEvents(content)])
                   \o <<Ev("EndTableRow")>>])
    \o <<Ev("EndTable")>>

\* The body rows hold one cell less than the header, as many, or one more.
TableDocs ==
    {TableDoc(header, nrows,
              SatSub(Len(header) + extra, 1),
              content, align) :
        header \in UNION {[1..n -> CellContents] : n \in 0..MaxTableCols},
        nrows \in 0..MaxTableRows,
        extra \in 0..2,
        content \in CellContents,
        align \in {"None", "Center"}}

InitTable ==
    /\ events \in TableDocs
    /\ epos = 1
    /\ rpc = "run"
    /\ \E w \in 0..MaxTableWidth : RendererNew(w)
    /\ SinglePass
    /\ BudgetIdle
    /\ WrapIdle
    /\ RowIdle
    /\ ViewIdle

NextTable ==
    \/ StartTable \/ StartTableHead \/ EndTableHead \/ StartTableRow \/ EndTableRow
    \/ StartTableCell \/ EndTableCell \/ Text \/ InlineCode \/ EndTable \/ ProcessEnd

SpecTable == InitTable /\ [][NextTable]_vars

\* -------------------------------------------- event streams: documents
MaxQuote == 2

MaxInlines == 2

\* A link around inline content.
LinkEvents(url, content) ==
    <<Event("StartLink", url)>> \o content \o <<Ev("EndLink")>>

\* The inline content the parser emits inside a paragraph.
InlineItems ==
    {<<Event("Text", <<"a">>)>>,
     <<Event("Code", <<"a">>)>>,
     <<Event("InlineHtml", <<"<", "b", ">">>)>>,
     <<Event("FootnoteReference", <<"1">>)>>,
     <<Event("InlineMath", <<"x">>)>>,
     <<Ev("HardBreak")>>,
     <<Ev("SoftBreak")>>,
     LinkEvents(<<"u">>, <<Event("Text", <<"a">>)>>),
     LinkEvents(<<"v">>, <<Event("Text", <<"b">>)>>),
     <<Ev("StartEmphasis"), Event("Text", <<"a">>), Ev("EndEmphasis")>>,
     <<Ev("StartStrong"), Event("Text", <<"a">>), Ev("EndStrong")>>,
     <<Ev("StartStrikethrough"), Event("Text", <<"a">>), Ev("EndStrikethrough")>>}

ParagraphBlocks ==
    {<<Ev("StartParagraph")>> \o Flatten(items) \o <<Ev("EndParagraph")>> :
        items \in UNION {[1..n -> InlineItems] : n \in 1..MaxInlines}}

\* The inline content of the headings: text, emphasised text, a link, inline
\* code, text after a link.
HeadingContents ==
    {<<Event("Text", <<"a">>)>>,
     <<Ev("StartEmphasis"), Event("Text", <<"a">>), Ev("EndEmphasis")>>,
     LinkEvents(<<"u">>, <<Event("Text", <<"a">>)>>),
     <<Event("Code", <<"a">>)>>,
     LinkEvents(<<"u">>, <<Event("Text", <<"a">>)>>) \o <<Event("Text", <<"b">>)>>}

HeadingBlocks ==
    {<<Event("StartHeading", level)>> \o content \o <<Ev("EndHeading")>> :
        level \in 1..6, content \in HeadingContents}

CodeBlocks ==
    {<<Event("StartCodeBlock", lang), Event("Text", code), Ev("EndCodeBlock")>> :
        lang \in {<<>>, <<"rs">>, <<"rs", "x">>},
        code \in {<<"a", "NL">>, <<"a", "NL", "b", "NL">>, <<"a", "NL", "NL", "b", "NL">>}}
    \cup
    {<<Event("StartCodeBlock", <<"rs">>), Event("Text", <<"a", "NL">>),
       Event("Text", <<"b", "NL">>), Ev("EndCodeBlock")>>,
     <<Event("StartCodeBlock", <<>>), Ev("EndCodeBlock")>>}

LeafBlocks ==
    {<<Ev("Rule")>>,
     <<Event("DisplayMath", <<"x">>)>>,
     <<Event("Html", <<"<", "p", ">", "NL">>)>>}

\* A table of one header cell and no body row.
TableBlocks ==
    {<<Event("StartTable", <<"None">>), Ev("StartTableHead")>>
     \o CellEvents(content)
     \o <<Ev("EndTableHead"), Ev("EndTable")>> :
        content \in {<<Event("Text", <<"a">>)>>,
                     LinkEvents(<<"u">>, <<Event("Text", <<"a">>)>>),
                     <<Event("Code", <<"a">>), Event("InlineMath", <<"x">>)>>,
                     <<Event("Text", <<"a">>), Event("FootnoteReference", <<"1">>)>>,
                     <<Event("InlineHtml", <<"<", "b", ">">>), Event("Text", <<"a">>)>>}}

\* A bullet list of one task item.
TaskBlocks ==
    {<<Event("StartList", NoStart), Ev("StartItem"), Event("TaskListMarker", checked),
       Event("Text", <<"a">>), Ev("EndItem"), Ev("EndList")>> :
        checked \in BOOLEAN}

MaxParagraphs == 3

MaxDepth == 3

\* A list of one item that holds paragraphs paragraphs.
ParagraphItem(start, paragraphs) ==
    <<Event("StartList", start), Ev("StartItem")>>
    \o Flatten([i \in 1..paragraphs |->
                   <<Ev("StartParagraph"), Event("Text", <<"a">>), Ev("EndParagraph")>>])
    \o <<Ev("EndItem"), Ev("EndList")>>

RECURSIVE ListsInLists(_)
\* Lists inside one another, the outermost first, ordered where orders says
\* so; at every level an item that holds the inner list, then a plain item.
ListsInLists(orders) ==
    IF orders = <<>> THEN <<>>
    ELSE <<Event("StartList", IF Head(orders) THEN SomeStart(1) ELSE NoStart),
           Ev("StartItem"), Event("Text", <<"a">>)>>
         \o ListsInLists(Tail(orders))
         \o <<Ev("EndItem"), Ev("StartItem"), Event("Text", <<"a">>), Ev("EndItem"),
              Ev("EndList")>>

ListBlocks ==
    {ParagraphItem(start, paragraphs) :
        start \in {NoStart, SomeStart(1)}, paragraphs \in 1..MaxParagraphs}
    \cup {ListsInLists(orders) : orders \in UNION {[1..d -> BOOLEAN] : d \in 1..MaxDepth}}

Blocks ==
    ParagraphBlocks \cup HeadingBlocks \cup CodeBlocks \cup LeafBlocks
    \cup TableBlocks \cup TaskBlocks \cup ListBlocks

\* One block inside depth levels of blockquote.
Doc(depth, block) ==
    [i \in 1..depth |-> Ev("StartBlockQuote")]
    \o block
    \o [i \in 1..depth |-> Ev("EndBlockQuote")]

Docs == {Doc(depth, block) : depth \in 0..MaxQuote, block \in Blocks}

InitDoc ==
    /\ events \in Docs
    /\ epos = 1
    /\ rpc = "run"
    /\ RendererNew(80)
    /\ SinglePass
    /\ BudgetIdle
    /\ WrapIdle
    /\ RowIdle
    /\ ViewIdle

NextDoc ==
    \/ StartParagraph \/ EndParagraph \/ StartBlockQuote \/ EndBlockQuote
    \/ StartHeading \/ EndHeading
    \/ StartEmphasis \/ StartStrong \/ StartStrikethrough \/ EndInline
    \/ StartLink \/ EndLink
    \/ StartCodeBlock \/ EndCodeBlock
    \/ Text \/ InlineCode \/ SoftBreak \/ HardBreak \/ Rule \/ TaskMarker
    \/ RawHtml \/ InlineHtml \/ FootnoteRef \/ Math \/ DisplayMath
    \/ StartList \/ EndList \/ StartItem \/ EndItem
    \/ StartTable \/ StartTableHead \/ EndTableHead \/ StartTableCell \/ EndTableCell
    \/ EndTable
    \/ ProcessEnd

SpecDoc == InitDoc /\ [][NextDoc]_vars

\* ------------------------------------- event streams: any order, two calls
MaxEvents == 3

\* Starts and ends of the nesting constructs and a text run.
AnyEvents ==
    {Ev("StartEmphasis"), Ev("EndEmphasis"),
     Event("StartLink", <<"u">>), Ev("EndLink"),
     Event("StartHeading", 1), Ev("EndHeading"),
     Event("StartList", NoStart), Ev("EndList"),
     Ev("StartBlockQuote"), Ev("EndBlockQuote"),
     Event("StartCodeBlock", <<"rs">>), Ev("EndCodeBlock"),
     Event("Text", <<"a", "NL">>)}

\* Every stream of at most MaxEvents events, balanced or not.
AnyStreams == UNION {[1..n -> AnyEvents] : n \in 0..MaxEvents}

InitAny ==
    /\ events \in AnyStreams
    /\ epos = 1
    /\ rpc = "run"
    /\ RendererNew(80)
    /\ pass = 1
    /\ first_pass = <<>>
    /\ BudgetIdle
    /\ WrapIdle
    /\ RowIdle
    /\ ViewIdle

NextAny ==
    \/ StartEmphasis \/ EndInline \/ StartLink \/ EndLink
    \/ StartHeading \/ EndHeading \/ StartList \/ EndList
    \/ StartBlockQuote \/ EndBlockQuote \/ StartCodeBlock \/ EndCodeBlock
    \/ Text \/ ProcessEnd \/ RenderAgain

SpecAny == InitAny /\ [][NextAny]_vars

\* ---------------------------------------------------------- claims: lists
\* The 1-based positions in the event stream of the events of one kind.
EventPositions(kind) == {i \in 1..Len(events) : events[i].e = kind}

\* The document's list holds no paragraph events: a tight list.
TightList ==
    \A p \in EventPositions("StartParagraph") :
        \A l \in EventPositions("StartList") : p < l

\* The document's list holds a list inside an item.
NestedList ==
    \E i \in EventPositions("StartList") : events[i - 1].e = "Text" /\ i > 1

\* Each item of the document's list starts with a paragraph: a loose list.
LooseList ==
    \A i \in EventPositions("StartItem") : events[i + 1].e = "StartParagraph"

\* A span is an item prefix: gray, ending in a bullet or "N." and a space.
IsItemPrefix(span) ==
    /\ span.style = DarkGray
    /\ Len(span.content) >= 2
    /\ span.content[Len(span.content)] = " "
    /\ span.content[Len(span.content) - 1] \in {"BULLET1", "BULLET2", "BULLET3", "."}

\* The indices of the Document's lines that carry an item prefix.
ItemLineIndices ==
    {i \in 1..Len(lines) : \E j \in 1..Len(lines[i]) : IsItemPrefix(lines[i][j])}

\* A set of indices without a gap.
Consecutive(idx) ==
    \A i \in idx : \A j \in idx : \A m \in i..j : m \in idx

\* C9: a tight list of k items (no paragraph events inside) leaves k item
\* lines on consecutive line indices of the Document, with no blank line
\* between consecutive items.
C9_TightItemsConsecutive ==
    (rpc = "done" /\ TightList) =>
        /\ Cardinality(ItemLineIndices) = Cardinality(EventPositions("StartItem"))
        /\ Consecutive(ItemLineIndices)
        /\ \A i \in ItemLineIndices : lines[i] # <<>>

\* A tight list of several items after a paragraph, in a blockquote or not.
C9_Witness ==
    /\ rpc = "done"
    /\ TightList
    /\ EventPositions("StartParagraph") # {}
    /\ ~NestedList
    /\ Cardinality(EventPositions("StartItem")) >= 3
    /\ Cardinality(ItemLineIndices) >= 3
    /\ Consecutive(ItemLineIndices)

\* C10: in a loose list (each item's content wrapped in paragraph events)
\* every item line is preceded and followed by a blank line, so consecutive
\* item lines are separated by a blank line. (An item line that opens the
\* Document has no line before it.)
C10_LooseItemsSeparated ==
    (rpc = "done" /\ LooseList) =>
        \A i \in ItemLineIndices :
            /\ i = 1 \/ lines[i - 1] = <<>>
            /\ i < Len(lines) /\ lines[i + 1] = <<>>

\* A line of an ordered list's item: its item prefix ends in "." and a space.
IsOrderedItemLine(line) ==
    \E j \in 1..Len(line) :
        IsItemPrefix(line[j]) /\ line[j].content[Len(line[j].content) - 1] = "."

\* The lines of the items of the document's ordered list, in Document order
\* (the nested lists of these documents are bulleted).
OrderedItemLines == SelectSeq(lines, IsOrderedItemLine)

\* C11: in every ordered list the i-th item (1-based) is rendered with the
\* literal prefix "i. ", whatever start number the list-start event carries
\* and whatever nested list is rendered between two of its items.
C11_OrderedPrefixes ==
    rpc = "done" =>
        \A k \in 1..Len(OrderedItemLines) :
            \E j \in 1..Len(OrderedItemLines[k]) :
                OrderedItemLines[k][j] = Span(FormatNumber(k) \o <<".", " ">>, DarkGray)

\* --------------------------------------------------------- claims: tables
\* C8: for every table and every terminal width, every line the table
\* renderer appends (borders, header lines, body lines, padding rows) has
\* display width <= the terminal width.
C8_TableLinesFitWidth ==
    \A i \in 1..Len(lines) : cell_text_width(lines[i]) <= width

\* The number of vertical-bar border spans of a line.
VBarSpans(line) ==
    Cardinality({j \in 1..Len(line) : line[j] = Span(<<"VBAR">>, DarkGray)})

\* A header or body line of a table (a padding row included): it opens with
\* the vertical bar.
IsContentLine(line) == line # <<>> /\ line[1] = Span(<<"VBAR">>, DarkGray)

\* C12: for a table with N >= 1 header cells every header or body content
\* line holds exactly N + 1 vertical-bar border spans, whatever the number of
\* cells of the body rows and whatever the width.
C12_BordersPerContentLine ==
    Len(table_header) >= 1 =>
        \A i \in 1..Len(lines) :
            IsContentLine(lines[i]) => VBarSpans(lines[i]) = Len(table_header) + 1

\* A two-column table whose body row holds more cells than the header and
\* wraps onto several visual rows.
C12_Witness ==
    /\ rpc = "done"
    /\ Len(table_header) = 2
    /\ table_rows # <<>>
    /\ Len(table_rows[1]) > 2
    /\ Cardinality({i \in 1..Len(lines) : IsContentLine(lines[i])}) > 4
    /\ \A i \in 1..Len(lines) : IsContentLine(lines[i]) => VBarSpans(lines[i]) = 3

HeadingDoc == EventPositions("StartHeading") # {}

\* The level of the document's heading.
HeadingLevel == events[CHOOSE i \in EventPositions("StartHeading") : TRUE].arg

\* The text event at position i lies between a link start and its end.
InsideLink(i) ==
    Cardinality({j \in 1..i : events[j].e = "StartLink"})
        > Cardinality({j \in 1..i : events[j].e = "EndLink"})

\* The spans of a line that show the text of the text event at position i.
TextRunSpans(line, i) ==
    {k \in 1..Len(line) : line[k].content = events[i].arg}

\* The colour the contract gives to levels 1, 2, 3 and 4.
LevelColour(level) ==
    CASE level = 1 -> "Cyan"
      [] level = 2 -> "Green"
      [] level = 3 -> "Yellow"
      [] level = 4 -> "White"

\* The span carries the colour of the four-capped level, in bold.
CarriesLevelStyle(span, level) ==
    /\ span.style.fg = LevelColour(Min(level, 4))
    /\ "BOLD" \in span.style.mods

\* The line starts with min(level, 4) marks and a space, in the level's style.
StartsWithHeadingPrefix(line, level) ==
    /\ line # <<>>
    /\ line[1].content = Repeat("#", Min(level, 4)) \o <<" ">>
    /\ CarriesLevelStyle(line[1], level)

\* C13 as stated: a heading of level L starts its line with min(L, 4) marks
\* and a space, and the prefix and every text run inside the heading carry
\* the level's colour and bold; levels 5 and 6 render as level 4.
C13_EveryTextRunLevelStyle ==
    (rpc = "done" /\ HeadingDoc) =>
        /\ StartsWithHeadingPrefix(lines[1], HeadingLevel)
        /\ \A i \in EventPositions("Text") :
              \A k \in TextRunSpans(lines[1], i) :
                 CarriesLevelStyle(lines[1][k], HeadingLevel)

\* C13, amended: a heading of level L starts its line with min(L, 4) marks and
\* a space in the level's colour and bold; every text run of the heading
\* outside a link carries the level's colour and bold; a text run inside a
\* link carries bold and the link's blue; levels 5 and 6 render as level 4.
C13_TextRunsOutsideLinksLevelStyle ==
    (rpc = "done" /\ HeadingDoc) =>
        /\ StartsWithHeadingPrefix(lines[1], HeadingLevel)
        /\ \A i \in EventPositions("Text") :
              /\ TextRunSpans(lines[1], i) # {}
              /\ \A k \in TextRunSpans(lines[1], i) :
                    IF InsideLink(i)
                    THEN /\ lines[1][k].style.fg = "Blue"
                         /\ "BOLD" \in lines[1][k].style.mods
                    ELSE CarriesLevelStyle(lines[1][k], HeadingLevel)

\* A level-6 heading inside a blockquote, with a link and text after it, has
\* been rendered.
C13_Witness ==
    /\ rpc = "done"
    /\ HeadingDoc
    /\ HeadingLevel = 6
    /\ blockquote_depth = 0
    /\ EventPositions("StartBlockQuote") # {}
    /\ \E i, j \in EventPositions("Text") : InsideLink(i) /\ ~InsideLink(j)
    /\ Len(lines) = 2

\* The number of blockquotes the document's block lies in.
QuoteDepth == Cardinality(EventPositions("StartBlockQuote"))

\* The prefix glyph of one blockquote level.
IsQuoteGlyph(span) == span = Span(<<"QBAR", " ">>, DarkGray)

\* The line begins with exactly depth prefix glyph spans.
StartsWithGlyphs(line, depth) ==
    /\ Len(line) >= depth
    /\ \A k \in 1..depth : IsQuoteGlyph(line[k])
    /\ Len(line) > depth => ~IsQuoteGlyph(line[depth + 1])

\* C16: every non-blank line whose content starts while the blockquote depth
\* is d > 0 begins with exactly d prefix glyph spans, whichever event supplies
\* the first content of the line.
C16_QuotedLinesStartWithGlyphs ==
    (rpc = "done" /\ QuoteDepth > 0) =>
        \A i \in 1..Len(lines) :
           lines[i] # <<>> => StartsWithGlyphs(lines[i], QuoteDepth)

\* The last span of the line buffer or, in a table, of the cell being filled:
\* where inline content goes.
InlineBuffer == IF in_table THEN current_cell ELSE spans

\* C18: a link-start event stores the destination and pushes one style; the
\* matching link-end event pops that style, appends the span " (url)" with the
\* stored destination directly after the link's inline content, and leaves
\* the link URL buffer empty.
C18_LinkEndAppendsUrl ==
    [][/\ StartLink =>
            /\ link_url' = events[epos].arg
            /\ Len(style_stack') = Len(style_stack) + 1
       /\ EndLink =>
            /\ style_stack' = SubSeq(style_stack, 1, Len(style_stack) - 1)
            /\ link_url' = <<>>
            /\ InlineBuffer' = Append(InlineBuffer, Span(UrlText(link_url), DarkGray))
            /\ link_url = events[CHOOSE i \in EventPositions("StartLink") :
                                    /\ i < epos
                                    /\ \A j \in EventPositions("StartLink") :
                                          j < epos => j <= i].arg]_vars

\* The lines the step has appended to the Document.
AppendedLines == SubSeq(lines', Len(lines) + 1, Len(lines'))

\* C19: between a code-block start and its end a text event only appends its
\* text to the code buffer; on code-block end each line returned by the
\* highlighter is appended to the Document behind blockquote-depth-many prefix
\* glyph spans and a two-space span, then exactly one blank line, and the code
\* buffer and the language tag are left empty.
C19_CodeBlockLines ==
    [][/\ (Text /\ in_code_block) =>
            /\ code_buf' = code_buf \o events[epos].arg
            /\ UNCHANGED <<lines, spans, style_stack, current_cell>>
       /\ EndCodeBlock =>
            LET highlighted == highlight_code(code_buf, code_lang) IN
            /\ SubSeq(lines', 1, Len(lines)) = lines
            /\ Len(AppendedLines) = Len(highlighted) + 1
            /\ \A i \in 1..Len(highlighted) :
                  /\ StartsWithGlyphs(AppendedLines[i], blockquote_depth)
                  /\ AppendedLines[i][blockquote_depth + 1]
                        = Span(<<" ", " ">>, DefaultStyle)
                  /\ SubSeq(AppendedLines[i], blockquote_depth + 2,
                            Len(AppendedLines[i])) = highlighted[i]
            /\ AppendedLines[Len(highlighted) + 1] = <<>>
            /\ spans' = <<>>
            /\ code_buf' = <<>>
            /\ code_lang' = "None"]_vars

\* A code block of two lines, fed by two text events, has been rendered
\* inside a blockquote.
C19_Witness ==
    /\ rpc = "done"
    /\ QuoteDepth > 0
    /\ \E i \in EventPositions("StartCodeBlock") :
          /\ events[i].arg # <<>>
          /\ events[i + 1].e = "Text"
          /\ events[i + 2].e = "Text"
    /\ Len(lines) = 3
    /\ StartsWithGlyphs(lines[2], QuoteDepth)
    /\ lines[3] = <<>>

\* -------------------------------------------- claims on any stream, two calls
\* C15: after any sequence of events, balanced or not, the style stack holds
\* at least one style and the list stack depth and the blockquote depth are
\* >= 0: an inline-end or heading-end event on a stack of size 1 leaves it
\* unchanged, and a list-end or blockquote-end at depth 0 leaves the depth 0.
C15_StacksKeepFloor ==
    /\ [](Len(style_stack) >= 1 /\ Len(list_stack) >= 0 /\ blockquote_depth >= 0)
    /\ [][/\ ((EndInline \/ EndHeading) /\ Len(style_stack) = 1) =>
                style_stack' = style_stack
          /\ (EndList /\ list_stack = <<>>) => list_stack' = <<>>
          /\ (EndBlockQuote /\ blockquote_depth = 0) => blockquote_depth' = 0]_vars

\* A stream of three ends without their starts has been processed.
C15_Witness ==
    /\ rpc = "done"
    /\ Len(events) = 3
    /\ {events[i].e : i \in 1..3} \subseteq {"EndEmphasis", "EndHeading", "EndList",
                                              "EndBlockQuote"}
    /\ events[1].e = "EndEmphasis"
    /\ events[2].e = "EndList"
    /\ events[3].e = "EndBlockQuote"
    /\ Len(style_stack) = 1

\* The steps the running call has taken.
StepsTaken == (epos - 1) + (IF rpc = "done" THEN 1 ELSE 0)

ParagraphsBefore(pos) ==
    Cardinality({j \in 1..(pos - 1) :
                    /\ events[j].e = "StartParagraph"
                    /\ \E i \in 1..(j - 1) : events[i].e = "StartItem"
                    /\ \A k \in (j + 1)..(pos - 1) : events[k].e # "StartItem"})

\* C24: within one list item the start of the first paragraph inserts no blank
\* line, and the start of the second and of every later paragraph of that item
\* inserts a blank line before that paragraph's content.
C24_BlankLineFromSecondParagraph ==
    [][(AtEvent("StartParagraph") /\ list_stack # <<>> /\ ~in_table) =>
          IF ParagraphsBefore(epos) = 0
          THEN lines' = lines
          ELSE /\ SubSeq(lines', 1, Len(lines)) = lines
               /\ AppendedLines # <<>>
               /\ AppendedLines[Len(AppendedLines)] = <<>>]_vars

\* The first half of C24 alone: no line is inserted at an item's first paragraph.
FirstParagraphInsertsNothing ==
    [][(AtEvent("StartParagraph") /\ list_stack # <<>> /\ ParagraphsBefore(epos) = 0)
          => lines' = lines]_vars

\* The number of blank lines among ls.
BlankLines(ls) == Cardinality({k \in 1..Len(ls) : ls[k] = <<>>})

\* C25: exactly one blank line is appended to the Document when a heading
\* ends, when a code block ends, when a table ends and when a list-end event
\* empties the list stack; a list-end event that leaves the list stack
\* non-empty appends no line.
C25_OneBlankLineAtBlockEnds ==
    [][/\ (\/ AtEvent("EndHeading") \/ AtEvent("EndCodeBlock") \/ AtEvent("EndTable")
           \/ (AtEvent("EndList") /\ Len(list_stack) <= 1)) =>
             /\ SubSeq(lines', 1, Len(lines)) = lines
             /\ BlankLines(AppendedLines) = 1
             /\ AppendedLines[Len(AppendedLines)] = <<>>
       /\ (AtEvent("EndList") /\ Len(list_stack) > 1) => lines' = lines]_vars

\* The outermost of three nested lists has just ended: the two inner list
\* ends appended nothing, the last one the only blank line of the Document.
C25_Witness ==
    /\ epos > 1 /\ events[epos - 1].e = "EndList"
    /\ list_stack = <<>>
    /\ Cardinality({j \in 1..(epos - 1) : events[j].e = "EndList"}) = 3
    /\ BlankLines(lines) = 1
    /\ lines[Len(lines)] = <<>>

\* The lists open before event pos: the nesting depth of an item starting there.
OpenLists(pos) ==
    Cardinality({j \in 1..(pos - 1) : events[j].e = "StartList"})
    - Cardinality({j \in 1..(pos - 1) : events[j].e = "EndList"})

\* One glyph for depth 1, one for depth 2, one for every depth from 3 on.
DepthGlyph(d) == IF d = 1 THEN "BULLET1" ELSE IF d = 2 THEN "BULLET2" ELSE "BULLET3"

\* C28: a list item at nesting depth d >= 1 is prefixed with 2 * (d - 1)
\* spaces of indent followed by its marker, after any blockquote prefix; the
\* marker glyph of an unordered item is chosen by depth, distinct for depth 1,
\* depth 2 and depth >= 3, and depth counts ordered and unordered ancestors
\* alike.
C28_ItemPrefix ==
    [][(AtEvent("StartItem") /\ OpenLists(epos) >= 1) =>
          LET d == OpenLists(epos)
              top == list_stack[Len(list_stack)]
          IN /\ Len(list_stack) = d
             /\ Len(spans') = blockquote_depth + 1
             /\ \A q \in 1..blockquote_depth : IsQuoteGlyph(spans'[q])
             /\ spans'[blockquote_depth + 1].content =
                   Repeat(" ", 2 * (d - 1))
                   \o (IF top.ordered THEN FormatNumber(top.counter) \o <<".">>
                       ELSE <<DepthGlyph(d)>>)
                   \o <<" ">>]_vars

\* An unordered item has just started at depth 3 below an ordered list, inside
\* a blockquote: four spaces and the third glyph follow the prefix glyph.
C28_Witness ==
    /\ epos > 1 /\ events[epos - 1].e = "StartItem"
    /\ Len(list_stack) = 3
    /\ list_stack[2].ordered /\ ~list_stack[3].ordered
    /\ blockquote_depth = 1
    /\ Len(spans) = 2
    /\ IsQuoteGlyph(spans[1])
    /\ spans[2].content = <<" ", " ", " ", " ", "BULLET3", " ">>

\* ------------------------------------------------ claims on table events
\* The inline events a table cell can receive.
InlineEventKinds ==
    {"Text", "Code", "EndLink", "SoftBreak", "TaskListMarker", "InlineHtml",
     "FootnoteReference", "InlineMath"}

\* process() is about to dispatch an inline event.
AtInlineEvent == rpc = "run" /\ epos <= Len(events) /\ events[epos].e \in InlineEventKinds

\* C31: between a table-start and the matching table-end event every inline
\* event contributes only to the current cell buffer and leaves the pending
\* line buffer untouched, so the lines a table adds to the Document are
\* exactly the table renderer's output followed by one blank line.
C31_TableInlinesGoToCell ==
    [][/\ (AtInlineEvent /\ in_table) => /\ spans' = spans
                                         /\ lines' = lines
       /\ AtEvent("EndTable") =>
             lines' = lines \o render_table(table_header, table_rows,
                                            table_alignments, width) \o <<<<>>>>]_vars

\* The part of C31 the code keeps: text runs and inline code inside a table go
\* to the current cell and leave the Document and the line buffer alone.
TextAndCodeGoToCell ==
    [][(in_table /\ (AtEvent("Text") \/ AtEvent("Code"))) =>
          /\ spans' = spans
          /\ lines' = lines
          /\ Len(current_cell') = Len(current_cell) + 1]_vars

\* ------------------------------------------------ claims on the line buffer
RECURSIVE RunsDelivered(_, _, _, _)
\* The text runs among events[i..n] that are delivered outside a code block
\* and outside a table, in event order.
RunsDelivered(i, n, in_code, in_tab) ==
    IF i > n THEN <<>>
    ELSE LET kind == events[i].e IN
         CASE kind = "StartCodeBlock" -> RunsDelivered(i + 1, n, TRUE, in_tab)
           [] kind = "EndCodeBlock" -> RunsDelivered(i + 1, n, FALSE, in_tab)
           [] kind = "StartTable" -> RunsDelivered(i + 1, n, in_code, TRUE)
           [] kind = "EndTable" -> RunsDelivered(i + 1, n, in_code, FALSE)
           [] kind = "Text" /\ ~in_code /\ ~in_tab ->
                <<events[i].arg>> \o RunsDelivered(i + 1, n, in_code, in_tab)
           [] OTHER -> RunsDelivered(i + 1, n, in_code, in_tab)

\* A line the table renderer produced: it starts with a border glyph.
IsTableLine(line) ==
    /\ line # <<>>
    /\ line[1].content # <<>>
    /\ line[1].content[1] \in {"VBAR", "TOPLEFT", "MIDLEFT", "BOTLEFT"}

\* A span that shows a text run: it has the characters of one and is neither
\* highlighter output nor inside a table line.
IsTextRun(span) ==
    /\ span.content \in {events[j].arg : j \in {k \in 1..Len(events) : events[k].e = "Text"}}
    /\ span.style.fg \notin {"ThemePlain", "ThemeSyntax"}

RECURSIVE RunsOfLine(_)
RunsOfLine(line) ==
    IF line = <<>> THEN <<>>
    ELSE (IF IsTextRun(Head(line)) THEN <<Head(line).content>> ELSE <<>>)
         \o RunsOfLine(Tail(line))

RECURSIVE RunsShown(_)
\* The text runs the lines ls show, top to bottom and left to right.
RunsShown(ls) ==
    IF ls = <<>> THEN <<>>
    ELSE (IF IsTableLine(Head(ls)) THEN <<>> ELSE RunsOfLine(Head(ls)))
         \o RunsShown(Tail(ls))

\* C32: no content is lost or reordered by the line buffer: every text run
\* delivered outside a code block and outside a table appears exactly once in
\* the Document, in event order; the pending line buffer is only ever replaced
\* when it is empty (what it held has moved to the Document); and when the
\* event stream has ended the pending line buffer is empty.
C32_NoTextLostOrReordered ==
    /\ [](rpc \in {"run", "done"} =>
             RunsShown(Append(lines, spans)) = RunsDelivered(1, epos - 1, FALSE, FALSE))
    /\ [](rpc = "done" => spans = <<>>)
    /\ [][~IsPrefix(spans, spans') =>
             \E k \in (Len(lines) + 1)..Len(lines') : lines'[k] = spans]_vars

\* A quoted block of two different text runs has been rendered: the line
\* buffer was seeded, filled and flushed, and the Document shows both runs in
\* the order of their events.
C32_Witness ==
    /\ rpc = "done"
    /\ spans = <<>>
    /\ events[1].e = "StartBlockQuote"
    /\ RunsDelivered(1, Len(events), FALSE, FALSE) = <<<<"a">>, <<"b">>>>
    /\ RunsShown(lines) = RunsDelivered(1, Len(events), FALSE, FALSE)

\* ------------------------------------------------ the viewer's main loop
MaxTermHeight == 2

MaxSent == 2

MaxResizes == 1

\* u16::MAX
U16Max == 65535

\* The widths a terminal takes here; the rule line differs between them.
TermWidths == {2, 3}

TermSizes == [w : TermWidths, h : 1..MaxTermHeight]

\* The files: a paragraph; a rule and two paragraphs.
Contents == {<<"para">>, <<"rule", "para", "para">>}

\* What read_to_string returns: the content, or an error.
ReadOk(data) == [ok |-> TRUE, data |-> data]

ReadErr == [ok |-> FALSE, data |-> <<>>]

\* The Renderer's lines and line buffer after one block of the file: the
\* events Start(Paragraph), Text, End(Paragraph) of a paragraph outside lists,
\* or the Rule event.
RenderBlock(block, b, w) ==
    IF block = "para"
    THEN push_blank(flush_line(Buf(flush_line(b).lines,
                                   Append(flush_line(b).spans,
                                          Span(<<"a">>, DefaultStyle)))))
    ELSE LET f == flush_line(b) IN
         push_blank(Buf(Append(f.lines,
                               StyledLine(Repeat("HBAR", SatSub(w, 2)), DarkGray)),
                        f.spans))

RECURSIVE RenderBlocks(_, _, _)
\* process(): block after block, then the final flush_line
RenderBlocks(blocks, b, w) ==
    IF blocks = <<>> THEN flush_line(b).lines
    ELSE CHOOSE out \in {RenderBlocks(Tail(blocks), nb, w) :
                             nb \in {RenderBlock(Head(blocks), b, w)}} : TRUE

\* render_markdown(input, width): the lines of the Text it returns
render_markdown(input, w) == RenderBlocks(input, Buf(<<>>, <<>>), w)

\* App::max_scroll
max_scroll(text, viewport_height) == SatSub(Min(Len(text), U16Max), viewport_height)

\* App::scroll_down
scroll_down(scroll, n, text, viewport_height) ==
    Min(scroll + n, max_scroll(text, viewport_height))

\* App::scroll_up
scroll_up(scroll, n) == SatSub(scroll, n)

\* App::clamp_scroll
clamp_scroll(scroll, text, viewport_height) == Min(scroll, max_scroll(text, viewport_height))

\* main, lines 75-98: the file is read, the terminal's size taken, the first
\* Document rendered, the channel and the watcher set up.
InitViewer ==
    /\ m_content \in Contents
    /\ file = ReadOk(m_content)
    /\ term \in TermSizes
    /\ m_render_width = term.w
    /\ app_text = render_markdown(m_content, m_render_width)
    /\ app_scroll = 0
    /\ app_viewport_height = term.h
    /\ channel = 0 /\ sent = 0 /\ resizes = <<>>
    /\ vpc = "draw"
    /\ took = 0 /\ reads = 0 /\ rerendered = TRUE /\ unseen = FALSE
    /\ BudgetIdle
    /\ WrapIdle
    /\ RowIdle
    /\ RenderIdle

worldVars == <<file, term, channel, sent, resizes, unseen>>

restVars == <<budgetVars, wrapVars, rowVars, renderVars>>

\* terminal.draw: the frame's area is the terminal's size now
Draw ==
    /\ vpc = "draw"
    /\ app_viewport_height' = term.h
    /\ vpc' = "recv"
    /\ took' = 0 /\ reads' = 0 /\ rerendered' = FALSE
    /\ UNCHANGED <<m_content, m_render_width, app_text, app_scroll, worldVars, restVars>>

\* An I/O call of the loop returns an error and `?` leaves main.
IoError ==
    /\ vpc \in {"draw", "poll"}
    /\ vpc' = "exit"
    /\ rerendered' = FALSE
    /\ UNCHANGED <<m_content, m_render_width, app_text, app_scroll, app_viewport_height,
                   took, reads, worldVars, restVars>>

\* if rx.try_recv().is_ok()
TryRecv ==
    /\ vpc = "recv"
    /\ IF channel > 0
       THEN channel' = channel - 1 /\ took' = took + 1 /\ vpc' = "drain"
       ELSE UNCHANGED <<channel, took>> /\ vpc' = "poll"
    /\ rerendered' = FALSE
    /\ UNCHANGED <<m_content, m_render_width, app_text, app_scroll, app_viewport_height,
                   reads, file, term, sent, resizes, unseen, restVars>>

DrainMut ==
    /\ vpc = "drain"
    /\ vpc' = "read"
    /\ rerendered' = FALSE
    /\ UNCHANGED <<m_content, m_render_width, app_text, app_scroll, app_viewport_height,
                   took, reads, worldVars, restVars>>

\* while rx.try_recv().is_ok() {}
Drain ==
    /\ vpc = "drain"
    /\ IF channel > 0
       THEN channel' = channel - 1 /\ took' = took + 1 /\ vpc' = "drain"
       ELSE UNCHANGED <<channel, took>> /\ vpc' = "read"
    /\ rerendered' = FALSE
    /\ UNCHANGED <<m_content, m_render_width, app_text, app_scroll, app_viewport_height,
                   reads, file, term, sent, resizes, unseen, restVars>>

ReloadMut ==
    /\ vpc = "read"
    /\ reads' = reads + 1
    /\ unseen' = FALSE
    /\ m_content' = file.data
    /\ m_render_width' = term.w
    /\ app_text' = render_markdown(m_content', m_render_width')
    /\ app_scroll' = clamp_scroll(app_scroll, app_text', app_viewport_height)
    /\ rerendered' = TRUE
    /\ vpc' = "poll"
    /\ UNCHANGED <<app_viewport_height, took, file, term, channel, sent, resizes, restVars>>

\* lines 119-124: the re-read and, if it succeeds, the re-render
Reload ==
    /\ vpc = "read"
    /\ reads' = reads + 1
    /\ unseen' = FALSE
    /\ IF file.ok
       THEN /\ m_content' = file.data
            /\ \/ /\ m_render_width' = term.w
                  /\ \E rendered \in {render_markdown(file.data, term.w)} :
                        /\ app_text' = rendered
                        /\ app_scroll' = clamp_scroll(app_scroll, rendered,
                                                      app_viewport_height)
                  /\ rerendered' = TRUE
                  /\ vpc' = "poll"
               \/ \* terminal.size()? returns the error
                  /\ UNCHANGED <<m_render_width, app_text, app_scroll>>
                  /\ rerendered' = FALSE
                  /\ vpc' = "exit"
       ELSE /\ UNCHANGED <<m_content, m_render_width, app_text, app_scroll>>
            /\ rerendered' = FALSE
            /\ vpc' = "poll"
    /\ UNCHANGED <<app_viewport_height, took, file, term, channel, sent, resizes, restVars>>

\* The keys main tells apart.
Keys == {"q", "j", "k", "d", "u", "g", "G", "space", "pageup", "other"}

\* lines 129-147: the scroll position after a key
KeyScroll(key) ==
    CASE key = "j" -> scroll_down(app_scroll, 1, app_text, app_viewport_height)
      [] key = "k" -> scroll_up(app_scroll, 1)
      [] key = "d" -> scroll_down(app_scroll, app_viewport_height \div 2, app_text,
                                  app_viewport_height)
      [] key = "u" -> scroll_up(app_scroll, app_viewport_height \div 2)
      [] key = "g" -> 0
      [] key = "G" -> max_scroll(app_text, app_viewport_height)
      [] key = "space" -> scroll_down(app_scroll, SatSub(app_viewport_height, 2), app_text,
                                      app_viewport_height)
      [] key = "pageup" -> scroll_up(app_scroll, SatSub(app_viewport_height, 2))
      [] OTHER -> app_scroll

\* event::poll returns false after 50 ms: no event is queued
PollTimeout ==
    /\ vpc = "poll"
    /\ resizes = <<>>
    /\ vpc' = "draw"
    /\ rerendered' = FALSE
    /\ UNCHANGED <<m_content, m_render_width, app_text, app_scroll, app_viewport_height,
                   took, reads, worldVars, restVars>>

\* Event::Key
KeyEvent(key) ==
    /\ vpc = "poll"
    /\ vpc' = IF key = "q" THEN "exit" ELSE "draw"
    /\ app_scroll' = KeyScroll(key)
    /\ rerendered' = FALSE
    /\ UNCHANGED <<m_content, m_render_width, app_text, app_viewport_height,
                   took, reads, worldVars, restVars>>

ResizeEventMut ==
    /\ vpc = "poll"
    /\ resizes # <<>>
    /\ resizes' = Tail(resizes)
    /\ app_viewport_height' = Head(resizes).h
    /\ m_render_width' = Head(resizes).w
    /\ UNCHANGED app_text
    /\ rerendered' = FALSE
    /\ app_scroll' = clamp_scroll(app_scroll, app_text', app_viewport_height')
    /\ vpc' = "draw"
    /\ UNCHANGED <<m_content, took, reads, file, term, channel, sent, unseen, restVars>>

\* Event::Resize(w, h)
ResizeEvent ==
    /\ vpc = "poll"
    /\ resizes # <<>>
    /\ resizes' = Tail(resizes)
    /\ app_viewport_height' = Head(resizes).h
    /\ IF Head(resizes).w # m_render_width
       THEN /\ m_render_width' = Head(resizes).w
            /\ app_text' = render_markdown(m_content, m_render_width')
            /\ rerendered' = TRUE
       ELSE /\ UNCHANGED <<m_render_width, app_text>>
            /\ rerendered' = FALSE
    /\ app_scroll' = clamp_scroll(app_scroll, app_text', app_viewport_height')
    /\ vpc' = "draw"
    /\ UNCHANGED <<m_content, took, reads, file, term, channel, sent, unseen, restVars>>

mainVars == <<m_content, m_render_width, app_text, app_scroll, app_viewport_height,
              vpc, took, reads, rerendered>>

\* The terminal is resized; crossterm queues the event.
TermResize ==
    /\ vpc # "exit"
    /\ Len(resizes) < MaxResizes
    /\ \E size \in TermSizes \ {term} :
          /\ term' = size
          /\ resizes' = Append(resizes, size)
    /\ UNCHANGED <<mainVars, file, channel, sent, unseen, restVars>>

\* The file is rewritten, or becomes unreadable.
FileWrite ==
    /\ vpc # "exit"
    /\ file' \in ({ReadOk(data) : data \in Contents} \cup {ReadErr}) \ {file}
    /\ UNCHANGED <<mainVars, term, channel, sent, resizes, unseen, restVars>>

\* watch.rs, lines 8-14: the watcher's callback gets a Modify event
WatcherSend ==
    /\ vpc # "exit"
    /\ sent < MaxSent
    /\ sent' = sent + 1
    /\ channel' = channel + 1
    /\ unseen' = TRUE
    /\ UNCHANGED <<mainVars, file, term, resizes, restVars>>

NextViewer ==
    \/ Draw \/ TryRecv \/ Drain \/ Reload \/ PollTimeout
    \/ \E key \in Keys : KeyEvent(key)
    \/ ResizeEvent \/ IoError
    \/ TermResize \/ FileWrite \/ WatcherSend

SpecViewer == InitViewer /\ [][NextViewer]_vars

\* The loop with no input but the quit key, on a terminal that keeps its size.
MainLoop == Draw \/ TryRecv \/ Drain \/ Reload \/ PollTimeout

NextWatch == MainLoop \/ KeyEvent("q") \/ FileWrite \/ WatcherSend

\* main runs on as long as it has a step to take; the watcher and the file's
\* writers take steps as they please.
SpecWatch == InitViewer /\ [][NextWatch]_vars /\ WF_vars(MainLoop)

\* -------------------------------------------------- claims on the viewer
\* main is inside its loop.
InLoop == vpc \in {"draw", "recv", "drain", "read", "poll"}

\* C33: in the viewer's main loop the displayed Document always equals
\* render_markdown(content, render_width) for the current content and
\* render_width: every change of content or of render_width is followed in the
\* same step by a full re-render, and a resize event that keeps the width does
\* not re-render.
C33_DisplayedIsRendered ==
    /\ [](InLoop => app_text = render_markdown(m_content, m_render_width))
    /\ [][((m_content' # m_content \/ m_render_width' # m_render_width) /\ InLoop')
             => rerendered']_vars
    /\ [][(ResizeEvent /\ Head(resizes).w = m_render_width)
             => (~rerendered' /\ app_text' = app_text)]_vars

\* A resize event to another width has just been handled for a file with a
\* rule, whose line depends on the width, after the view was scrolled.
C33_Witness ==
    /\ vpc = "draw"
    /\ rerendered
    /\ \E i \in 1..Len(m_content) : m_content[i] = "rule"
    /\ m_render_width = term.w
    /\ m_content # file.data
    /\ app_scroll > 0

\* C34: in every state of the viewer in which a frame is drawn or an input
\* event is handled, scroll <= max_scroll(), across any interleaving of key
\* presses, resize events, file reloads and the viewport-height update made
\* while drawing a frame.
C34_ScrollWithinMax ==
    vpc \in {"recv", "poll"} => app_scroll <= max_scroll(app_text, app_viewport_height)

\* What C34 says of the states in which nothing but key presses and reloads has
\* happened since the terminal had its present height.
ScrollWithinMaxAtSteadyHeight ==
    (vpc \in {"recv", "poll"} /\ resizes = <<>> /\ app_viewport_height = term.h)
        => app_scroll <= max_scroll(app_text, app_viewport_height)

\* C36: if re-reading the file after a change notification fails, the reload
\* step leaves content, the displayed Document, render_width and scroll
\* unchanged and the loop keeps running.
C36_FailedReloadChangesNothing ==
    [][(vpc = "read" /\ vpc' # "read" /\ ~file.ok) =>
          /\ UNCHANGED <<m_content, app_text, m_render_width, app_scroll>>
          /\ vpc' = "poll"]_vars

\* A re-read has just failed while the view was scrolled and the terminal had
\* another width than the Document: main is at its poll, nothing re-rendered.
C36_Witness ==
    /\ vpc = "poll"
    /\ reads = 1
    /\ ~rerendered
    /\ ~file.ok
    /\ app_scroll > 0
    /\ term.w # m_render_width

\* C35: file-change notifications are never lost and are coalesced: a loop
\* iteration that finds one or more queued notifications drains them and
\* performs exactly one re-read of the file, and every notification sent while
\* the loop is running is consumed by some later iteration whose re-read
\* happens after that notification was sent.
C35_NotificationsCoalescedNotLost ==
    /\ [](vpc = "poll" => reads = IF took > 0 THEN 1 ELSE 0)
    /\ [][(vpc = "drain" /\ vpc' = "read") => channel = 0]_vars
    /\ [](unseen => (channel > 0 \/ vpc \in {"drain", "read"}))
    /\ (unseen ~> (~unseen \/ vpc = "exit"))

\* Two notifications were received in one iteration and answered by one
\* re-read, which came after both.
C35_Witness ==
    /\ vpc = "poll"
    /\ sent = 2
    /\ took = 2
    /\ reads = 1
    /\ channel = 0
    /\ ~unseen

====
